---- MODULE Spec2Model ----
(***************************************************************************)
(* The chunked PDF -> CSV conversion pipeline of app/pdfconv (ai.py,       *)
(* utils.py, config.py) and of the older script app/pdfconv_smart.py.      *)
(* Texts are sequences of one-character strings, so that cleaning,         *)
(* splitting and joining are computed character by character.              *)
(***************************************************************************)
EXTENDS Integers, Sequences, FiniteSets, TLC

(***************************************************************************)
(* Bounds of the model.                                                    *)
(***************************************************************************)
MaxPages == 4
MaxPagesPerChunk == 2
MaxCalls == 1

(***************************************************************************)
(* Text helpers (Python str semantics).                                    *)
(***************************************************************************)
NL == "\n"

Whitespace == {" ", "\n", "\t", "\r"}

\* The backtick has no TLA+ string literal; "#" stands for it.
BT == "#"

Fence == <<BT, BT, BT>>

FenceCsv == <<BT, BT, BT, "c", "s", "v">>

Min(a, b) == IF a < b THEN a ELSE b

StartsWith(s, pat) ==
    /\ Len(pat) <= Len(s)
    /\ SubSeq(s, 1, Len(pat)) = pat

Drop(s, n) == SubSeq(s, n + 1, Len(s))

\* str.replace(pat, ''): leftmost, non-overlapping occurrences removed.
RECURSIVE Remove(_, _)
Remove(s, pat) ==
    IF s = <<>> THEN <<>>
    ELSE IF StartsWith(s, pat) THEN Remove(Drop(s, Len(pat)), pat)
    ELSE <<Head(s)>> \o Remove(Tail(s), pat)

RECURSIVE LStrip(_)
LStrip(s) ==
    IF s # <<>> /\ Head(s) \in Whitespace THEN LStrip(Tail(s)) ELSE s

RECURSIVE RStrip(_)
RStrip(s) ==
    IF s # <<>> /\ s[Len(s)] \in Whitespace
    THEN RStrip(SubSeq(s, 1, Len(s) - 1)) ELSE s

\* str.strip()
Strip(s) == RStrip(LStrip(s))

\* str.split('\n'): always at least one piece.
RECURSIVE SplitLines(_)
SplitLines(s) ==
    IF \A k \in 1..Len(s) : s[k] # NL THEN <<s>>
    ELSE LET p == CHOOSE k \in 1..Len(s) :
                     s[k] = NL /\ \A j \in 1..(k - 1) : s[j] # NL
         IN  <<SubSeq(s, 1, p - 1)>> \o SplitLines(Drop(s, p))

\* '\n'.join(parts)
RECURSIVE JoinLines(_)
JoinLines(parts) ==
    IF parts = <<>> THEN <<>>
    ELSE IF Len(parts) = 1 THEN parts[1]
    ELSE parts[1] \o <<NL>> \o JoinLines(Tail(parts))

(***************************************************************************)
(* CsvProcessor                                                            *)
(***************************************************************************)
\* clean_response: [ok |-> TRUE, val |-> text] or [ok |-> FALSE, err |-> cause].
CleanResponseBadEmpty(content) ==
    IF content = <<>>
    THEN [ok |-> FALSE, val |-> <<>>, err |-> "empty_response"]
    ELSE [ok |-> TRUE,
          val |-> Strip(Remove(Remove(content, FenceCsv), Fence)),
          err |-> "none"]

CleanResponseBadStripFirst(content) ==
    IF content = <<>>
    THEN [ok |-> FALSE, val |-> <<>>, err |-> "empty_response"]
    ELSE LET result == Remove(Remove(Strip(content), FenceCsv), Fence)
         IN  IF result = <<>>
             THEN [ok |-> FALSE, val |-> <<>>, err |-> "empty_after_clean"]
             ELSE [ok |-> TRUE, val |-> result, err |-> "none"]

CleanResponse(content) ==
    IF content = <<>>
    THEN [ok |-> FALSE, val |-> <<>>, err |-> "empty_response"]
    ELSE LET result == Strip(Remove(Remove(content, FenceCsv), Fence))
         IN  IF result = <<>>
             THEN [ok |-> FALSE, val |-> <<>>, err |-> "empty_after_clean"]
             ELSE [ok |-> TRUE, val |-> result, err |-> "none"]

RemoveHeaderBadOneLine(csv_content) ==
    JoinLines(Tail(SplitLines(csv_content)))

RemoveHeader(csv_content) ==
    LET lines == SplitLines(csv_content)
    IN  IF Len(lines) > 1 THEN JoinLines(Tail(lines)) ELSE csv_content

(***************************************************************************)
(* PdfUtils.split_into_chunks: the page ranges of the chunks.              *)
(***************************************************************************)
PdfChunk(start_page, end_page, total_pages) ==
    [start_page |-> start_page, end_page |-> end_page,
     total_pages |-> total_pages]

\* for start_page in range(from, total_pages, pages_per_chunk)
RECURSIVE ChunksFrom(_, _, _)
ChunksFrom(start_page, total_pages, pages_per_chunk) ==
    IF start_page >= total_pages THEN <<>>
    ELSE LET end_page == Min(start_page + pages_per_chunk, total_pages)
         IN  <<PdfChunk(start_page + 1, end_page, total_pages)>>
             \o ChunksFrom(start_page + pages_per_chunk, total_pages,
                           pages_per_chunk)

SplitIntoChunksBadNoMin(total_pages, pages_per_chunk) ==
    [k \in 1..Len(ChunksFrom(0, total_pages, pages_per_chunk)) |->
        PdfChunk((k - 1) * pages_per_chunk + 1, k * pages_per_chunk,
                 total_pages)]

SplitIntoChunks(total_pages, pages_per_chunk) ==
    ChunksFrom(0, total_pages, pages_per_chunk)

(***************************************************************************)
(* LLMProviderConfig                                                       *)
(***************************************************************************)
\* MODEL_CONFIGS keys
Registered == {"openai", "openrouter", "groq", "google"}

\* MODEL_CONFIGS["groq"]["max_chunk_pages"]
GroqMaxChunkPages == 5

GetMaxChunkPagesBadMin(llm_type, default) ==
    IF llm_type = "groq" THEN Min(default, GroqMaxChunkPages) ELSE default

GetMaxChunkPages(llm_type, default) ==
    IF llm_type \notin Registered THEN default
    ELSE IF llm_type = "groq" THEN GroqMaxChunkPages
    ELSE default

(***************************************************************************)
(* What the environment can do.                                            *)
(***************************************************************************)
\* Provider ids a call may name ("nosuch" is not registered).
LlmTypes == {"openai", "groq", "nosuch"}

\* The max_retries values a call may pass.
RetryChoices == {3}

\* Raw response contents a provider may return.
RawContents ==
    { FenceCsv \o <<"\n", "h", "\n", "2", "\n">> \o Fence,
      <<"x">>,
      Fence \o <<" ">>,
      <<>> }

\* The outcome of llm.invoke([message]): it throws, it returns a response
\* without content, or it returns a response with some content.
ProviderOutcomes ==
    { [kind |-> "throw", content |-> <<>>],
      [kind |-> "no_content", content |-> <<>>] }
    \cup { [kind |-> "content", content |-> c] : c \in RawContents }

\* How one open(..., 'w') + write can end: written, the open fails (no
\* file), or the write fails after the open truncated the file.
WriteHows == {"ok", "open_fails", "write_fails"}

\* The document on disk: readable, unreadable (the page count fails), or
\* readable for the page count but failing when read again.
DocStates == {"ok", "unreadable", "reread_fails"}

(***************************************************************************)
(* Sinks: the final output, <output>.incomplete, <output>.partial_<k>.     *)
(***************************************************************************)
OutputSink == <<"output", 0>>

IncompleteSink == <<"incomplete", 0>>

PartialSink(k) == <<"partial", k>>

\* FileManager.save_to_file on file system fs.
SaveToFile(fs, sink, content, how) ==
    IF how = "open_fails" THEN fs
    ELSE [s \in DOMAIN fs \cup {sink} |->
            IF s = sink THEN (IF how = "ok" THEN content ELSE <<>>)
            ELSE fs[s]]

\* FileManager.save_partial_results
SavePartialResultsBadIndex(fs, csv_data_list, output, chunk_index, how) ==
    IF ~output THEN fs
    ELSE SaveToFile(fs, PartialSink(chunk_index + 1),
                    JoinLines(csv_data_list), how)

SavePartialResults(fs, csv_data_list, output, chunk_index, how) ==
    IF ~output THEN fs
    ELSE SaveToFile(fs, PartialSink(chunk_index),
                    JoinLines(csv_data_list), how)

(***************************************************************************)
(* State                                                                   *)
(***************************************************************************)
VARIABLES
    llms,          \* self.llms: cached provider id -> max_retries of its client
    calls,         \* calls made on this converter so far
    pc,            \* idle | running | created | looping | suspended | done
    mode,          \* none | convert | smart_convert | convert_streaming
    args,          \* the arguments of the call in progress
    config,        \* ConversionConfig.max_pages_per_chunk of the call
    chunks,        \* the planned chunks
    single_pass,   \* the whole document is converted in one pass
    i,             \* loop index (0-based)
    all_csv_data,  \* the accumulator
    invokes,       \* llm.invoke calls of this call, in order
    files,         \* sink -> content, for the sinks that exist
    write_errors,  \* sinks for which a failed open/write/close was reported
    output_file,   \* streaming handle: none | open | closed
    yielded,       \* items delivered to the consumer
    injected,      \* what the consumer sent into the generator: none | exception | close
    outcome        \* how the call ended

vars == <<llms, calls, pc, mode, args, config, chunks, single_pass, i,
          all_csv_data, invokes, files, write_errors, output_file, yielded,
          injected, outcome>>

NoArgs ==
    [llm_type |-> "none", max_pages_per_chunk |-> 0, auto_chunk |-> FALSE,
     remove_header_if_not_first |-> FALSE, output |-> FALSE,
     max_retries |-> 0, page_count |-> 0]

NoError == [exc |-> "none", msg |-> "none", chunk |-> 0, cause |-> "none"]

NoOutcome == [kind |-> "none", result |-> <<>>, error |-> NoError]

Returned(result) == [kind |-> "returned", result |-> result, error |-> NoError]

Raised(exc, msg, chunk, cause) ==
    [kind |-> "raised", result |-> <<>>,
     error |-> [exc |-> exc, msg |-> msg, chunk |-> chunk, cause |-> cause]]

\* The generator ended: "exhausted" (StopIteration) or "closed" (the
\* consumer closed it).
Ended(kind) == [kind |-> kind, result |-> <<>>, error |-> NoError]

EmptyFiles == [s \in {} |-> <<>>]

Init ==
    /\ llms = [p \in {} |-> 0]
    /\ calls = 0
    /\ pc = "idle"
    /\ mode = "none"
    /\ args = NoArgs
    /\ config = 0
    /\ chunks = <<>>
    /\ single_pass = FALSE
    /\ i = 0
    /\ all_csv_data = <<>>
    /\ invokes = <<>>
    /\ files = EmptyFiles
    /\ write_errors = {}
    /\ output_file = "none"
    /\ yielded = <<>>
    /\ injected = "none"
    /\ outcome = NoOutcome

(***************************************************************************)
(* PdfConverter: helpers of the per-chunk code                             *)
(***************************************************************************)
\* _get_or_create_client: the cache after the call, or the error raised.
GetOrCreateClientBadReplace(cache, llm_type, max_retries, import_ok) ==
    IF llm_type \notin Registered
    THEN [ok |-> FALSE, llms |-> cache,
          error |-> [exc |-> "ValueError", msg |-> "unknown_llm_type",
                     chunk |-> 0, cause |-> "none"]]
    ELSE IF ~import_ok
    THEN [ok |-> FALSE, llms |-> cache,
          error |-> [exc |-> "PdfConverterException",
                     msg |-> "provider_import_failed",
                     chunk |-> 0, cause |-> "import_error"]]
    ELSE [ok |-> TRUE,
          llms |-> [p \in DOMAIN cache \cup {llm_type} |->
                      IF p = llm_type THEN max_retries ELSE cache[p]],
          error |-> NoError]

GetOrCreateClientBadUnknown(cache, llm_type, max_retries, import_ok) ==
    IF llm_type \in DOMAIN cache
    THEN [ok |-> TRUE, llms |-> cache, error |-> NoError]
    ELSE IF ~import_ok
    THEN [ok |-> FALSE, llms |-> cache,
          error |-> [exc |-> "PdfConverterException",
                     msg |-> "provider_import_failed",
                     chunk |-> 0, cause |-> "import_error"]]
    ELSE [ok |-> TRUE,
          llms |-> [p \in DOMAIN cache \cup {llm_type} |->
                      IF p = llm_type THEN max_retries ELSE cache[p]],
          error |-> NoError]

GetOrCreateClient(cache, llm_type, max_retries, import_ok) ==
    IF llm_type \in DOMAIN cache
    THEN [ok |-> TRUE, llms |-> cache, error |-> NoError]
    ELSE IF llm_type \notin Registered
    THEN [ok |-> FALSE, llms |-> cache,
          error |-> [exc |-> "ValueError", msg |-> "unknown_llm_type",
                     chunk |-> 0, cause |-> "none"]]
    ELSE IF ~import_ok
    THEN [ok |-> FALSE, llms |-> cache,
          error |-> [exc |-> "PdfConverterException",
                     msg |-> "provider_import_failed",
                     chunk |-> 0, cause |-> "import_error"]]
    ELSE [ok |-> TRUE,
          llms |-> [p \in DOMAIN cache \cup {llm_type} |->
                      IF p = llm_type THEN max_retries ELSE cache[p]],
          error |-> NoError]

\* _convert_chunk after the message is built: invoke, check, clean.
ConvertChunkBadSwallow(o) ==
    IF o.kind = "throw"
    THEN [ok |-> TRUE, val |-> <<"x">>, err |-> "none"]
    ELSE IF o.kind = "no_content"
    THEN [ok |-> FALSE, val |-> <<>>, err |-> "invalid_response"]
    ELSE CleanResponse(o.content)

ConvertChunk(o) ==
    IF o.kind = "throw"
    THEN [ok |-> FALSE, val |-> <<>>, err |-> "invoke_error"]
    ELSE IF o.kind = "no_content"
    THEN [ok |-> FALSE, val |-> <<>>, err |-> "invalid_response"]
    ELSE CleanResponse(o.content)

\* The sentences of the prompt.
AttachedSentence ==
    "Attached is a spreadsheet in PDF{chunk_info}. Convert it to CSV format. "

CsvOnlySentence ==
    "Only return CSV, do not add any other additional text or response or annotation. Just the csv. "

OmitHeaderSentence ==
    "Do not include the header row since this is a continuation of a previous chunk."

\* PdfChunk.page_range in brackets, as _process_chunks and convert_streaming
\* pass it; the single pass passes no chunk_info.
ChunkInfo(chunk) == <<chunk.start_page, chunk.end_page, chunk.total_pages>>

NoChunkInfo == <<>>

\* build_conversion_prompt: the sentences in order, and what {chunk_info}
\* stands for.
BuildConversionPromptBadFirst(chunk_info, is_first_chunk, remove_header_if_not_first) ==
    [chunk_info |-> chunk_info,
     sentences |->
        <<AttachedSentence, CsvOnlySentence>>
        \o (IF remove_header_if_not_first
            THEN <<OmitHeaderSentence>> ELSE <<>>)]

BuildConversionPrompt(chunk_info, is_first_chunk, remove_header_if_not_first) ==
    [chunk_info |-> chunk_info,
     sentences |->
        <<AttachedSentence, CsvOnlySentence>>
        \o (IF remove_header_if_not_first /\ ~is_first_chunk
            THEN <<OmitHeaderSentence>> ELSE <<>>)]

\* The llm.invoke call recorded: which chunk, how many pages it holds, the
\* two prompt switches, the prompt, and what the provider did.
Invocation(idx, chunk, is_first, remove_header, o) ==
    [chunk |-> idx,
     pages |-> chunk.end_page - chunk.start_page + 1,
     is_first |-> is_first,
     omit_header |-> remove_header /\ ~is_first,
     prompt |-> BuildConversionPrompt(
                    IF single_pass THEN NoChunkInfo ELSE ChunkInfo(chunk),
                    is_first, remove_header),
     outcome |-> o]

\* "Remove header if needed"
ApplyHeaderPolicyBadFirst(remove_header, idx, csv_data) ==
    IF remove_header THEN RemoveHeader(csv_data) ELSE csv_data

ApplyHeaderPolicy(remove_header, idx, csv_data) ==
    IF remove_header /\ idx > 0 /\ csv_data # <<>>
    THEN RemoveHeader(csv_data)
    ELSE csv_data

\* "Remove header if needed" in convert_streaming
StreamHeaderPolicy(remove_header, idx, csv_data) ==
    IF remove_header /\ idx > 0 THEN RemoveHeader(csv_data) ELSE csv_data

\* A write that is attempted only when an output path was designated.
Failed(output, sink, how) ==
    IF output /\ how # "ok" THEN {sink} ELSE {}

\* _handle_chunk_failure: the sinks it writes.
HandleChunkFailureFilesBadAlways(fs, acc, output, chunk_index, hp, hi) ==
    LET fs1 == SavePartialResults(fs, acc, output, chunk_index, hp)
    IN  IF output
        THEN SaveToFile(fs1, IncompleteSink, JoinLines(acc), hi)
        ELSE fs1

HandleChunkFailureFilesBadNoIncomplete(fs, acc, output, chunk_index, hp, hi) ==
    IF acc = <<>> THEN fs
    ELSE SavePartialResults(fs, acc, output, chunk_index, hp)

HandleChunkFailureFiles(fs, acc, output, chunk_index, hp, hi) ==
    IF acc = <<>> THEN fs
    ELSE LET fs1 == SavePartialResults(fs, acc, output, chunk_index, hp)
         IN  IF output
             THEN SaveToFile(fs1, IncompleteSink, JoinLines(acc), hi)
             ELSE fs1

\* _handle_chunk_failure: what it returns or raises.
HandleChunkFailureBadRaise(acc, chunk_index, cause) ==
    Raised("PdfConverterException", "failed_to_convert_any_chunks",
           chunk_index + 1, cause)

HandleChunkFailureBadNever(acc, chunk_index, cause) ==
    Returned(JoinLines(acc))

HandleChunkFailure(acc, chunk_index, cause) ==
    IF acc # <<>>
    THEN Returned(JoinLines(acc))
    ELSE Raised("PdfConverterException", "failed_to_convert_any_chunks",
                chunk_index + 1, cause)

\* "Save to file if requested" at the end of convert.
SaveOutput(fs, output, result, how) ==
    IF output THEN SaveToFile(fs, OutputSink, result, how) ELSE fs

(***************************************************************************)
(* Batch: PdfConverter.convert (ai.py) and the older script's convert      *)
(***************************************************************************)
ResetCall(m, a) ==
    /\ calls' = calls + 1
    /\ mode' = m
    /\ args' = a
    /\ i' = 0
    /\ all_csv_data' = <<>>
    /\ invokes' = <<>>
    /\ files' = EmptyFiles
    /\ write_errors' = {}
    /\ output_file' = "none"
    /\ yielded' = <<>>
    /\ injected' = "none"

CallArgs ==
    [llm_type : LlmTypes,
     max_pages_per_chunk : 1..MaxPagesPerChunk,
     auto_chunk : BOOLEAN,
     remove_header_if_not_first : BOOLEAN,
     output : BOOLEAN,
     max_retries : RetryChoices,
     page_count : 0..MaxPages]

\* The call up to the first provider invocation: the client, the page
\* count, the decision to chunk and the planning.
StartBatchBadChunk(m, a, pages_per_chunk, read_msg, plan_msg, doc, import_ok) ==
    LET client == GetOrCreateClient(llms, a.llm_type, a.max_retries, import_ok)
        fail(e) == /\ outcome' = [kind |-> "raised", result |-> <<>>, error |-> e]
                   /\ pc' = "done"
                   /\ chunks' = <<>>
                   /\ single_pass' = FALSE
    IN  /\ ResetCall(m, a)
        /\ config' = pages_per_chunk
        /\ llms' = client.llms
        /\ IF ~client.ok THEN fail(client.error)
           ELSE IF doc = "unreadable"
           THEN fail([exc |-> "PdfConverterException", msg |-> read_msg,
                      chunk |-> 0, cause |-> "read_error"])
           ELSE IF doc = "reread_fails"
           THEN fail([exc |-> "PdfConverterException",
                      msg |-> IF a.auto_chunk THEN plan_msg
                              ELSE "failed_to_convert_pdf",
                      chunk |-> 0, cause |-> "read_error"])
           ELSE /\ outcome' = NoOutcome
                /\ pc' = "running"
                /\ single_pass' = ~a.auto_chunk
                /\ chunks' = IF a.auto_chunk
                             THEN SplitIntoChunks(a.page_count, pages_per_chunk)
                             ELSE <<PdfChunk(1, a.page_count, a.page_count)>>

StartBatch(m, a, pages_per_chunk, read_msg, plan_msg, doc, import_ok) ==
    LET client == GetOrCreateClient(llms, a.llm_type, a.max_retries, import_ok)
        fail(e) == /\ outcome' = [kind |-> "raised", result |-> <<>>, error |-> e]
                   /\ pc' = "done"
                   /\ chunks' = <<>>
                   /\ single_pass' = FALSE
        should_chunk == a.auto_chunk /\ a.page_count > pages_per_chunk
    IN  /\ ResetCall(m, a)
        /\ config' = pages_per_chunk
        /\ llms' = client.llms
        /\ IF ~client.ok THEN fail(client.error)
           ELSE IF doc = "unreadable"
           THEN fail([exc |-> "PdfConverterException", msg |-> read_msg,
                      chunk |-> 0, cause |-> "read_error"])
           ELSE IF doc = "reread_fails"
           THEN fail([exc |-> "PdfConverterException",
                      msg |-> IF should_chunk THEN plan_msg
                              ELSE "failed_to_convert_pdf",
                      chunk |-> 0, cause |-> "read_error"])
           ELSE /\ outcome' = NoOutcome
                /\ pc' = "running"
                /\ single_pass' = ~should_chunk
                /\ chunks' = IF should_chunk
                             THEN SplitIntoChunks(a.page_count, pages_per_chunk)
                             ELSE <<PdfChunk(1, a.page_count, a.page_count)>>

Convert ==
    /\ pc = "idle"
    /\ calls < MaxCalls
    /\ \E a \in CallArgs, doc \in DocStates, import_ok \in BOOLEAN :
          StartBatch("convert", a,
                     GetMaxChunkPages(a.llm_type, a.max_pages_per_chunk),
                     "failed_to_read_pdf", "failed_to_convert_pdf",
                     doc, import_ok)

SmartConvert ==
    /\ pc = "idle"
    /\ calls < MaxCalls
    /\ \E a \in CallArgs, doc \in DocStates, import_ok \in BOOLEAN :
          StartBatch("smart_convert", a, a.max_pages_per_chunk,
                     "failed_to_read_pdf", "failed_to_chunk_pdf",
                     doc, import_ok)

\* The end of convert with `result`: the save, then the return.
FinalizeBadEscalate(fs, errs, result) ==
    \E how \in WriteHows :
        /\ (~args.output => how = "ok")
        /\ files' = SaveOutput(fs, args.output, result, how)
        /\ write_errors' = errs \cup Failed(args.output, OutputSink, how)
        /\ outcome' = IF how = "ok" THEN Returned(result)
                      ELSE Raised("PdfConverterException", "failed_to_save",
                                  0, "write_error")
        /\ pc' = "done"

Finalize(fs, errs, result) ==
    \E how \in WriteHows :
        /\ (~args.output => how = "ok")
        /\ files' = SaveOutput(fs, args.output, result, how)
        /\ write_errors' = errs \cup Failed(args.output, OutputSink, how)
        /\ outcome' = Returned(result)
        /\ pc' = "done"

\* One iteration of the loop (or the single pass) whose conversion succeeds,
\* the provider answering with o.
ChunkSucceeds(o) ==
    /\ LET r == ConvertChunk(o)
           rh == IF single_pass THEN FALSE
                 ELSE args.remove_header_if_not_first
           csv_data == ApplyHeaderPolicy(rh, i, r.val)
           acc == Append(all_csv_data, csv_data)
       IN  /\ r.ok
           /\ invokes' = Append(invokes,
                                Invocation(i, chunks[i + 1], i = 0, rh, o))
           /\ IF single_pass
              THEN /\ UNCHANGED <<all_csv_data, i>>
                   /\ Finalize(files, write_errors, r.val)
              ELSE /\ all_csv_data' = acc
                   /\ i' = i + 1
                   /\ IF i + 1 = Len(chunks)
                      THEN Finalize(files, write_errors, JoinLines(acc))
                      ELSE UNCHANGED <<files, write_errors, outcome, pc>>
    /\ UNCHANGED <<llms, calls, mode, args, config, chunks, single_pass,
                   output_file, yielded, injected>>

BatchChunkSucceeds ==
    /\ pc = "running"
    /\ \E o \in ProviderOutcomes : ChunkSucceeds(o)

\* One iteration of the loop (or the single pass) whose conversion fails.
BatchChunkFailsBadContinue ==
    /\ pc = "running"
    /\ ~single_pass
    /\ i + 1 < Len(chunks)
    /\ \E o \in ProviderOutcomes :
          /\ ~ConvertChunk(o).ok
          /\ invokes' = Append(invokes,
                               Invocation(i, chunks[i + 1], i = 0,
                                          args.remove_header_if_not_first, o))
    /\ i' = i + 1
    /\ UNCHANGED <<llms, calls, mode, args, config, chunks, single_pass,
                   all_csv_data, files, write_errors, outcome, pc,
                   output_file, yielded, injected>>

BatchChunkFails ==
    /\ pc = "running"
    /\ \E o \in ProviderOutcomes, hp \in WriteHows, hi \in WriteHows :
          LET r == ConvertChunk(o)
              rh == IF single_pass THEN FALSE
                    ELSE args.remove_header_if_not_first
              salvage == ~single_pass /\ all_csv_data # <<>>
              out == salvage /\ args.output
              fs == HandleChunkFailureFiles(files, all_csv_data, args.output,
                                            i, hp, hi)
              errs == write_errors \cup Failed(out, PartialSink(i), hp)
                                   \cup Failed(out, IncompleteSink, hi)
              res == HandleChunkFailure(all_csv_data, i, r.err)
          IN  /\ ~r.ok
              /\ (~out => hp = "ok" /\ hi = "ok")
              /\ invokes' = Append(invokes,
                                   Invocation(i, chunks[i + 1], i = 0, rh, o))
              /\ IF single_pass
                 THEN /\ outcome' = Raised("PdfConverterException",
                                           "failed_to_convert_pdf", 0, r.err)
                      /\ pc' = "done"
                      /\ UNCHANGED <<files, write_errors>>
                 ELSE IF res.kind = "raised"
                 THEN /\ outcome' = res
                      /\ pc' = "done"
                      /\ files' = fs
                      /\ write_errors' = errs
                 ELSE IF mode = "convert"
                 THEN Finalize(fs, errs, res.result)
                 ELSE /\ files' = fs
                      /\ write_errors' = errs
                      /\ outcome' = res
                      /\ pc' = "done"
    /\ UNCHANGED <<llms, calls, mode, args, config, chunks, single_pass, i,
                   all_csv_data, output_file, yielded, injected>>

(***************************************************************************)
(* Streaming: PdfConverter.convert_streaming, a generator                  *)
(***************************************************************************)
\* Calling the generator function runs none of its body.
ConvertStreaming ==
    /\ pc = "idle"
    /\ calls < MaxCalls
    /\ \E a \in CallArgs :
          /\ a.auto_chunk
          /\ ResetCall("convert_streaming", a)
    /\ pc' = "created"
    /\ config' = 0
    /\ chunks' = <<>>
    /\ single_pass' = FALSE
    /\ outcome' = NoOutcome
    /\ UNCHANGED llms

\* The first next(): the body up to the loop (client, page count, planning,
\* opening the output file).
StreamPrepareBadOpenFirst ==
    /\ pc = "created"
    /\ \E doc \in DocStates, import_ok \in BOOLEAN, open_ok \in BOOLEAN :
          LET client == GetOrCreateClient(llms, args.llm_type,
                                          args.max_retries, import_ok)
              opened == client.ok /\ args.output /\ open_ok
          IN  /\ llms' = client.llms
              /\ config' = args.max_pages_per_chunk
              /\ (~args.output => open_ok)
              /\ output_file' = IF opened THEN "open" ELSE "none"
              /\ files' = IF opened
                          THEN SaveToFile(files, OutputSink, <<>>, "ok")
                          ELSE files
              /\ write_errors' = write_errors
                                 \cup Failed(client.ok /\ args.output,
                                             OutputSink,
                                             IF open_ok THEN "ok"
                                             ELSE "open_fails")
              /\ IF ~client.ok
                 THEN /\ outcome' = [kind |-> "raised", result |-> <<>>,
                                     error |-> client.error]
                      /\ pc' = "done"
                      /\ UNCHANGED chunks
                 ELSE IF doc # "ok"
                 THEN /\ outcome' = Raised("PdfConverterException",
                                           "failed_to_prepare_pdf", 0,
                                           "read_error")
                      /\ pc' = "done"
                      /\ UNCHANGED chunks
                 ELSE /\ chunks' = SplitIntoChunks(args.page_count,
                                                   args.max_pages_per_chunk)
                      /\ pc' = "looping"
                      /\ UNCHANGED outcome
    /\ UNCHANGED <<calls, mode, args, single_pass, i, all_csv_data, invokes,
                   yielded, injected>>

StreamPrepare ==
    /\ pc = "created"
    /\ \E doc \in DocStates, import_ok \in BOOLEAN, open_ok \in BOOLEAN :
          LET client == GetOrCreateClient(llms, args.llm_type,
                                          args.max_retries, import_ok)
          IN  /\ llms' = client.llms
              /\ config' = args.max_pages_per_chunk
              /\ IF ~client.ok
                 THEN /\ outcome' = [kind |-> "raised", result |-> <<>>,
                                     error |-> client.error]
                      /\ pc' = "done"
                      /\ UNCHANGED <<chunks, files, write_errors, output_file>>
                 ELSE IF doc # "ok"
                 THEN /\ outcome' = Raised("PdfConverterException",
                                           "failed_to_prepare_pdf", 0,
                                           "read_error")
                      /\ pc' = "done"
                      /\ UNCHANGED <<chunks, files, write_errors, output_file>>
                 ELSE /\ (~args.output => open_ok)
                      /\ chunks' = SplitIntoChunks(args.page_count,
                                                   args.max_pages_per_chunk)
                      /\ output_file' = IF args.output /\ open_ok
                                        THEN "open" ELSE "none"
                      /\ files' = IF args.output /\ open_ok
                                  THEN SaveToFile(files, OutputSink, <<>>, "ok")
                                  ELSE files
                      /\ write_errors' = write_errors
                                         \cup Failed(args.output, OutputSink,
                                                     IF open_ok THEN "ok"
                                                     ELSE "open_fails")
                      /\ pc' = "looping"
                      /\ UNCHANGED outcome
    /\ UNCHANGED <<calls, mode, args, single_pass, i, all_csv_data, invokes,
                   yielded, injected>>

\* The finally block: the output file, if open, is closed (a failing close
\* is reported and the handle is closed all the same).
CloseOutput(errs) ==
    \E close_ok \in BOOLEAN :
        /\ (output_file # "open" => close_ok)
        /\ output_file' = IF output_file = "open" THEN "closed"
                          ELSE output_file
        /\ write_errors' = errs \cup
                           (IF close_ok THEN {} ELSE {OutputSink})

\* output_file.write(csv_data), the separator unless last, flush.
WriteIncrement(fs, csv_data, last, ok) ==
    IF ~ok THEN fs
    ELSE [fs EXCEPT ![OutputSink] =
             @ \o csv_data \o (IF last THEN <<>> ELSE <<NL>>)]

\* One iteration that succeeds: append, write, yield.
StreamChunkSucceedsBadYieldFirst ==
    /\ pc = "looping"
    /\ i < Len(chunks)
    /\ \E o \in ProviderOutcomes :
          LET r == ConvertChunk(o)
              rh == args.remove_header_if_not_first
              csv_data == StreamHeaderPolicy(rh, i, r.val)
          IN  /\ r.ok
              /\ invokes' = Append(invokes,
                                   Invocation(i, chunks[i + 1], i = 0, rh, o))
              /\ yielded' = Append(yielded, csv_data)
    /\ pc' = "suspended"
    /\ UNCHANGED <<llms, calls, mode, args, config, chunks, single_pass, i,
                   all_csv_data, files, write_errors, output_file, injected,
                   outcome>>

StreamChunkSucceeds ==
    /\ pc = "looping"
    /\ i < Len(chunks)
    /\ \E o \in ProviderOutcomes, write_ok \in BOOLEAN :
          LET r == ConvertChunk(o)
              rh == args.remove_header_if_not_first
              csv_data == StreamHeaderPolicy(rh, i, r.val)
          IN  /\ r.ok
              /\ (output_file # "open" => write_ok)
              /\ invokes' = Append(invokes,
                                   Invocation(i, chunks[i + 1], i = 0, rh, o))
              /\ all_csv_data' = Append(all_csv_data, csv_data)
              /\ files' = IF output_file = "open"
                          THEN WriteIncrement(files, csv_data,
                                              i = Len(chunks) - 1, write_ok)
                          ELSE files
              /\ write_errors' = write_errors \cup
                                 (IF write_ok THEN {} ELSE {OutputSink})
              /\ yielded' = Append(yielded, csv_data)
    /\ pc' = "suspended"
    /\ UNCHANGED <<llms, calls, mode, args, config, chunks, single_pass, i,
                   output_file, injected, outcome>>

\* The except clause of the loop body, then the finally block.
StopStreamBadSkipSave(kind) ==
    /\ UNCHANGED files
    /\ CloseOutput(write_errors)
    /\ outcome' = Ended(kind)
    /\ pc' = "done"

StopStreamBadIncomplete(kind) ==
    \E hp \in WriteHows, hi \in WriteHows :
        LET save == all_csv_data # <<>> /\ args.output
        IN  /\ (~save => hp = "ok" /\ hi = "ok")
            /\ files' = IF save
                        THEN HandleChunkFailureFiles(files, all_csv_data,
                                                     args.output, i, hp, hi)
                        ELSE files
            /\ CloseOutput(write_errors \cup Failed(save, PartialSink(i), hp)
                                        \cup Failed(save, IncompleteSink, hi))
            /\ outcome' = Ended(kind)
            /\ pc' = "done"

StopStreamBadSaveEmpty(kind) ==
    \E hp \in WriteHows :
        LET save == args.output
        IN  /\ (~save => hp = "ok")
            /\ files' = IF save
                        THEN SavePartialResults(files, all_csv_data,
                                                args.output, i, hp)
                        ELSE files
            /\ CloseOutput(write_errors \cup Failed(save, PartialSink(i), hp))
            /\ outcome' = Ended(kind)
            /\ pc' = "done"

StopStream(kind) ==
    \E hp \in WriteHows :
        LET save == all_csv_data # <<>> /\ args.output
        IN  /\ (~save => hp = "ok")
            /\ files' = IF save
                        THEN SavePartialResults(files, all_csv_data,
                                                args.output, i, hp)
                        ELSE files
            /\ CloseOutput(write_errors \cup Failed(save, PartialSink(i), hp))
            /\ outcome' = Ended(kind)
            /\ pc' = "done"

\* One iteration whose conversion fails.
StreamChunkFails ==
    /\ pc = "looping"
    /\ i < Len(chunks)
    /\ \E o \in ProviderOutcomes :
          /\ ~ConvertChunk(o).ok
          /\ invokes' = Append(invokes,
                               Invocation(i, chunks[i + 1], i = 0,
                                          args.remove_header_if_not_first, o))
    /\ StopStream("exhausted")
    /\ UNCHANGED <<llms, calls, mode, args, config, chunks, single_pass, i,
                   all_csv_data, yielded, injected>>

\* The loop is over: the finally block, then StopIteration.
StreamFinish ==
    /\ pc = "looping"
    /\ i = Len(chunks)
    /\ CloseOutput(write_errors)
    /\ outcome' = Ended("exhausted")
    /\ pc' = "done"
    /\ UNCHANGED <<llms, calls, mode, args, config, chunks, single_pass, i,
                   all_csv_data, invokes, files, yielded, injected>>

\* The consumer asks for the next item: the generator resumes after yield.
ConsumerNext ==
    /\ pc = "suspended"
    /\ i' = i + 1
    /\ pc' = "looping"
    /\ UNCHANGED <<llms, calls, mode, args, config, chunks, single_pass,
                   all_csv_data, invokes, files, write_errors, output_file,
                   yielded, injected, outcome>>

\* The consumer throws an Exception into the generator (generator.throw):
\* it is raised at the yield, inside the try of the loop body, and caught
\* by its `except Exception`.
ConsumerThrow ==
    /\ pc = "suspended"
    /\ injected' = "exception"
    /\ StopStream("exhausted")
    /\ UNCHANGED <<llms, calls, mode, args, config, chunks, single_pass, i,
                   all_csv_data, invokes, yielded>>

\* The consumer closes the generator (generator.close, or dropping it):
\* GeneratorExit is raised at the yield; it is no Exception, so only the
\* finally block runs.  A generator that never started just ends.
ConsumerCloseBadNoFinally ==
    /\ pc \in {"created", "suspended"}
    /\ injected' = "close"
    /\ outcome' = Ended("closed")
    /\ pc' = "done"
    /\ UNCHANGED <<llms, calls, mode, args, config, chunks, single_pass, i,
                   all_csv_data, invokes, files, write_errors, output_file,
                   yielded>>

ConsumerClose ==
    /\ pc \in {"created", "suspended"}
    /\ injected' = "close"
    /\ CloseOutput(write_errors)
    /\ outcome' = Ended("closed")
    /\ pc' = "done"
    /\ UNCHANGED <<llms, calls, mode, args, config, chunks, single_pass, i,
                   all_csv_data, invokes, files, yielded>>

\* The call is over and its caller has its outcome: what belonged to the
\* call is gone, and the converter, with its client cache, can be called
\* again.
CallEnds ==
    /\ pc = "done"
    /\ pc' = "idle"
    /\ mode' = "none"
    /\ args' = NoArgs
    /\ config' = 0
    /\ chunks' = <<>>
    /\ single_pass' = FALSE
    /\ i' = 0
    /\ all_csv_data' = <<>>
    /\ invokes' = <<>>
    /\ files' = EmptyFiles
    /\ write_errors' = {}
    /\ output_file' = "none"
    /\ yielded' = <<>>
    /\ injected' = "none"
    /\ outcome' = NoOutcome
    /\ UNCHANGED <<llms, calls>>

Next ==
    \/ CallEnds
    \/ Convert
    \/ SmartConvert
    \/ BatchChunkSucceeds
    \/ BatchChunkFails
    \/ ConvertStreaming
    \/ StreamPrepare
    \/ StreamChunkSucceeds
    \/ StreamChunkFails
    \/ StreamFinish
    \/ ConsumerNext
    \/ ConsumerThrow
    \/ ConsumerClose

Spec == Init /\ [][Next]_vars

(***************************************************************************)
(* Chunk planning on its own: split_into_chunks applied to every document  *)
(* size and every pages_per_chunk of a range.                              *)
(***************************************************************************)
PlanMaxPages == 9
PlanMaxPerChunk == 6

PlanInit ==
    /\ llms = [p \in {} |-> 0]
    /\ calls = 0
    /\ pc = "unplanned"
    /\ mode = "none"
    /\ \E total_pages \in 1..PlanMaxPages :
          args = [NoArgs EXCEPT !.page_count = total_pages]
    /\ config \in 1..PlanMaxPerChunk
    /\ chunks = <<>>
    /\ single_pass = FALSE
    /\ i = 0
    /\ all_csv_data = <<>>
    /\ invokes = <<>>
    /\ files = EmptyFiles
    /\ write_errors = {}
    /\ output_file = "none"
    /\ yielded = <<>>
    /\ injected = "none"
    /\ outcome = NoOutcome

Plan ==
    /\ pc = "unplanned"
    /\ chunks' = SplitIntoChunks(args.page_count, config)
    /\ pc' = "planned"
    /\ UNCHANGED <<llms, calls, mode, args, config, single_pass, i,
                   all_csv_data, invokes, files, write_errors, output_file,
                   yielded, injected, outcome>>

PlanNext == Plan

SpecPlan == PlanInit /\ [][PlanNext]_vars

(***************************************************************************)
(* Documents longer than the groq limit: convert and convert_streaming of  *)
(* ai.py called with page counts above MODEL_CONFIGS["groq"]               *)
(* ["max_chunk_pages"] and max_pages_per_chunk on both sides of it.        *)
(***************************************************************************)
WideMaxPages == 7
WideMaxPerChunk == 6

WideCallArgs ==
    [llm_type : LlmTypes,
     max_pages_per_chunk : (GroqMaxChunkPages - 2)..WideMaxPerChunk,
     auto_chunk : BOOLEAN,
     remove_header_if_not_first : BOOLEAN,
     output : BOOLEAN,
     max_retries : RetryChoices,
     page_count : (GroqMaxChunkPages + 1)..WideMaxPages]

WideConvert ==
    /\ pc = "idle"
    /\ calls < MaxCalls
    /\ \E a \in WideCallArgs, doc \in DocStates, import_ok \in BOOLEAN :
          StartBatch("convert", a,
                     GetMaxChunkPages(a.llm_type, a.max_pages_per_chunk),
                     "failed_to_read_pdf", "failed_to_convert_pdf",
                     doc, import_ok)

WideConvertStreaming ==
    /\ pc = "idle"
    /\ calls < MaxCalls
    /\ \E a \in WideCallArgs :
          /\ a.auto_chunk
          /\ ResetCall("convert_streaming", a)
    /\ pc' = "created"
    /\ config' = 0
    /\ chunks' = <<>>
    /\ single_pass' = FALSE
    /\ outcome' = NoOutcome
    /\ UNCHANGED llms

WideNext ==
    \/ CallEnds
    \/ WideConvert
    \/ BatchChunkSucceeds
    \/ BatchChunkFails
    \/ WideConvertStreaming
    \/ StreamPrepare
    \/ StreamChunkSucceeds
    \/ StreamChunkFails
    \/ StreamFinish
    \/ ConsumerNext
    \/ ConsumerThrow
    \/ ConsumerClose

SpecWide == Init /\ [][WideNext]_vars

(***************************************************************************)
(* Several calls on one converter: short documents, and max_retries that   *)
(* differ from call to call, so that the client cache is seen at work.     *)
(***************************************************************************)
CacheMaxCalls == 3
CacheMaxPages == 2

\* The max_retries values a call may pass.
CacheRetryChoices == {1, 3}

CacheCallArgs ==
    [llm_type : LlmTypes,
     max_pages_per_chunk : {1},
     auto_chunk : {TRUE},
     remove_header_if_not_first : {FALSE},
     output : {FALSE},
     max_retries : CacheRetryChoices,
     page_count : 1..CacheMaxPages]

CacheConvert ==
    /\ pc = "idle"
    /\ calls < CacheMaxCalls
    /\ \E a \in CacheCallArgs, doc \in DocStates, import_ok \in BOOLEAN :
          StartBatch("convert", a,
                     GetMaxChunkPages(a.llm_type, a.max_pages_per_chunk),
                     "failed_to_read_pdf", "failed_to_convert_pdf",
                     doc, import_ok)

CacheSmartConvert ==
    /\ pc = "idle"
    /\ calls < CacheMaxCalls
    /\ \E a \in CacheCallArgs, doc \in DocStates, import_ok \in BOOLEAN :
          StartBatch("smart_convert", a, a.max_pages_per_chunk,
                     "failed_to_read_pdf", "failed_to_chunk_pdf",
                     doc, import_ok)

CacheConvertStreaming ==
    /\ pc = "idle"
    /\ calls < CacheMaxCalls
    /\ \E a \in CacheCallArgs : ResetCall("convert_streaming", a)
    /\ pc' = "created"
    /\ config' = 0
    /\ chunks' = <<>>
    /\ single_pass' = FALSE
    /\ outcome' = NoOutcome
    /\ UNCHANGED llms

CacheNext ==
    \/ CallEnds
    \/ CacheConvert
    \/ CacheSmartConvert
    \/ BatchChunkSucceeds
    \/ BatchChunkFails
    \/ CacheConvertStreaming
    \/ StreamPrepare
    \/ StreamChunkSucceeds
    \/ StreamChunkFails
    \/ StreamFinish
    \/ ConsumerNext
    \/ ConsumerThrow
    \/ ConsumerClose

SpecCache == Init /\ [][CacheNext]_vars

(***************************************************************************)
(* MessageBuilder.build_message and what it calls.  Bytes are numbers of   *)
(* 0..255, texts are sequences of characters.                              *)
(***************************************************************************)
\* The base64 alphabet: B64Alphabet[v + 1] is the character of value v.
B64Alphabet ==
    <<"A", "B", "C", "D", "E", "F", "G", "H", "I", "J", "K", "L", "M", "N",
      "O", "P", "Q", "R", "S", "T", "U", "V", "W", "X", "Y", "Z", "a", "b",
      "c", "d", "e", "f", "g", "h", "i", "j", "k", "l", "m", "n", "o", "p",
      "q", "r", "s", "t", "u", "v", "w", "x", "y", "z", "0", "1", "2", "3",
      "4", "5", "6", "7", "8", "9", "+", "/">>

B64Char(v) == B64Alphabet[v + 1]

\* base64.b64encode(chunk_data).decode('utf-8')
RECURSIVE B64Encode(_)
B64Encode(bytes) ==
    IF bytes = <<>> THEN <<>>
    ELSE IF Len(bytes) = 1
    THEN LET n == bytes[1] * 65536
         IN  <<B64Char(n \div 262144), B64Char((n \div 4096) % 64), "=", "=">>
    ELSE IF Len(bytes) = 2
    THEN LET n == bytes[1] * 65536 + bytes[2] * 256
         IN  <<B64Char(n \div 262144), B64Char((n \div 4096) % 64),
               B64Char((n \div 64) % 64), "=">>
    ELSE LET n == bytes[1] * 65536 + bytes[2] * 256 + bytes[3]
         IN  <<B64Char(n \div 262144), B64Char((n \div 4096) % 64),
               B64Char((n \div 64) % 64), B64Char(n % 64)>>
             \o B64Encode(SubSeq(bytes, 4, Len(bytes)))

\* "data:application/pdf;base64,"
DataUriPrefix ==
    <<"d", "a", "t", "a", ":", "a", "p", "p", "l", "i", "c", "a", "t", "i",
      "o", "n", "/", "p", "d", "f", ";", "b", "a", "s", "e", "6", "4", ",">>

\* "\n\nExtracted text:\n"
ExtractedTextLabel ==
    <<"\n", "\n", "E", "x", "t", "r", "a", "c", "t", "e", "d", " ", "t",
      "e", "x", "t", ":", "\n">>

\* "\n\nAttached PDF (base64):\n"
AttachedPdfLabel ==
    <<"\n", "\n", "A", "t", "t", "a", "c", "h", "e", "d", " ", "P", "D",
      "F", " ", "(", "b", "a", "s", "e", "6", "4", ")", ":", "\n">>

\* Optional[str]: None, or a text.
None == [some |-> FALSE, text |-> <<>>]

Some(t) == [some |-> TRUE, text |-> t]

\* Python truthiness of an Optional[str].
Truthy(x) == x.some /\ x.text # <<>>

\* PdfUtils.extract_text: the reader may fail on the bytes; page_texts are
\* what page.extract_text() gives for each page ("" when it fails).
ExtractText(reader_ok, page_texts) ==
    LET pages_text == SelectSeq(page_texts, LAMBDA t : t # <<>>)
    IN  IF ~reader_ok THEN None
        ELSE IF pages_text = <<>> THEN None
        ELSE Some(Strip(JoinLines(pages_text)))

\* llm_type.lower(), on the ids a call may pass.
Lower(llm_type) == IF llm_type = "OpenAI" THEN "openai" ELSE llm_type

\* MODEL_CONFIGS[llm_type]["sdk"]
Sdk(llm_type) ==
    IF llm_type \in {"openai", "openrouter"} THEN "openai" ELSE llm_type

\* STRUCTURED_MESSAGE_SDKS
StructuredMessageSdks == {"openai"}

SupportsStructuredMessagesBadGroq(llm_type) ==
    Lower(llm_type) \in {t \in Registered : Sdk(t) \in {"openai", "groq"}}

SupportsStructuredMessages(llm_type) ==
    Lower(llm_type) \in {t \in Registered : Sdk(t) \in StructuredMessageSdks}

\* The payload build_message attaches: the extracted text, or the data URI.
PayloadBadEmptyText(chunk_data, extract_text, extraction) ==
    IF extract_text /\ extraction.some
    THEN [is_text |-> TRUE, text |-> extraction.text]
    ELSE [is_text |-> FALSE, text |-> DataUriPrefix \o B64Encode(chunk_data)]

Payload(chunk_data, extract_text, extraction) ==
    LET extracted_text == IF extract_text THEN extraction ELSE None
    IN  IF Truthy(extracted_text)
        THEN [is_text |-> TRUE, text |-> extracted_text.text]
        ELSE [is_text |-> FALSE,
              text |-> DataUriPrefix \o B64Encode(chunk_data)]

\* HumanMessage(content=...): a list of parts, or one string.
ListContent(parts) == [is_list |-> TRUE, parts |-> parts, text |-> <<>>]

StringContent(text) == [is_list |-> FALSE, parts |-> <<>>, text |-> text]

BuildMessage(prompt, chunk_data, llm_type, use_structured_messages, extract_text, extraction, import_ok) ==
    LET payload == Payload(chunk_data, extract_text, extraction)
    IN  IF ~import_ok
        THEN [kind |-> "raised", content |-> StringContent(<<>>)]
        ELSE IF use_structured_messages /\ SupportsStructuredMessages(llm_type)
        THEN [kind |-> "message",
              content |-> ListContent(
                  << [type |-> "text", text |-> prompt],
                     IF payload.is_text
                     THEN [type |-> "text", text |-> payload.text]
                     ELSE [type |-> "image_url",
                           image_url |-> [url |-> payload.text]] >>)]
        ELSE [kind |-> "message",
              content |-> StringContent(
                  prompt \o (IF payload.is_text THEN ExtractedTextLabel
                             ELSE AttachedPdfLabel) \o payload.text)]

\* The inputs of build_message.
MessageLlmTypes == {"openai", "OpenAI", "openrouter", "groq", "google", "nosuch"}

Prompts == { <<"p">>, <<"h", "e", "l", "l", "o">> }

\* b"", b"%", b"%P", b"%PD", b"%PDF-"
ChunkDatas ==
    { <<>>, <<37>>, <<37, 80>>, <<37, 80, 68>>, <<37, 80, 68, 70, 45>> }

\* The page texts of a chunk: no page, one blank page, three pages of which
\* one has no text.
PageTexts ==
    { <<>>, << <<" ">> >>, << <<"a", ",", "b">>, <<>>, <<"1", ",", "2">> >> }

MessageInit ==
    /\ llms = [p \in {} |-> 0]
    /\ calls = 0
    /\ pc = "unbuilt"
    /\ mode = "none"
    /\ args \in [prompt : Prompts,
                 chunk_data : ChunkDatas,
                 llm_type : MessageLlmTypes,
                 use_structured_messages : BOOLEAN,
                 extract_text : BOOLEAN,
                 reader_ok : BOOLEAN,
                 page_texts : PageTexts,
                 import_ok : BOOLEAN]
    /\ config = 0
    /\ chunks = <<>>
    /\ single_pass = FALSE
    /\ i = 0
    /\ all_csv_data = <<>>
    /\ invokes = <<>>
    /\ files = EmptyFiles
    /\ write_errors = {}
    /\ output_file = "none"
    /\ yielded = <<>>
    /\ injected = "none"
    /\ outcome = [kind |-> "none", content |-> StringContent(<<>>)]

BuildMessageCall ==
    /\ pc = "unbuilt"
    /\ outcome' = BuildMessage(args.prompt, args.chunk_data, args.llm_type,
                               args.use_structured_messages, args.extract_text,
                               ExtractText(args.reader_ok, args.page_texts),
                               args.import_ok)
    /\ pc' = "built"
    /\ UNCHANGED <<llms, calls, mode, args, config, chunks, single_pass, i,
                   all_csv_data, invokes, files, write_errors, output_file,
                   yielded, injected>>

MessageNext == BuildMessageCall

SpecMessage == MessageInit /\ [][MessageNext]_vars

(***************************************************************************)
(* clean_response on its own: applied to every text made of a few pieces   *)
(* (a backtick, a fence, "csv", a blank, a newline, a letter), and applied *)
(* once more to what it returned.                                          *)
(***************************************************************************)
CleanMaxPieces == 5

Pieces == { <<BT>>, Fence, <<"c", "s", "v">>, <<" ">>, <<NL>>, <<"a">> }

RECURSIVE Flatten(_)
Flatten(pieces) ==
    IF pieces = <<>> THEN <<>> ELSE Head(pieces) \o Flatten(Tail(pieces))

CleanInputs ==
    { Flatten(ps) : ps \in UNION { [1..n -> Pieces] : n \in 0..CleanMaxPieces } }

CleanInit ==
    /\ llms = [p \in {} |-> 0]
    /\ calls = 0
    /\ pc = "raw"
    /\ mode = "none"
    /\ args \in [response_content : CleanInputs]
    /\ config = 0
    /\ chunks = <<>>
    /\ single_pass = FALSE
    /\ i = 0
    /\ all_csv_data = <<>>
    /\ invokes = <<>>
    /\ files = EmptyFiles
    /\ write_errors = {}
    /\ output_file = "none"
    /\ yielded = <<>>
    /\ injected = "none"
    /\ outcome = NoOutcome

\* clean_response(response_content); `yielded` keeps what each call gave.
CleanOnce ==
    /\ pc = "raw"
    /\ yielded' = <<CleanResponse(args.response_content)>>
    /\ pc' = "cleaned"
    /\ UNCHANGED <<llms, calls, mode, args, config, chunks, single_pass, i,
                   all_csv_data, invokes, files, write_errors, output_file,
                   injected, outcome>>

\* clean_response applied to the text the first call returned.
CleanAgain ==
    /\ pc = "cleaned"
    /\ yielded[1].ok
    /\ yielded' = Append(yielded, CleanResponse(yielded[1].val))
    /\ pc' = "recleaned"
    /\ UNCHANGED <<llms, calls, mode, args, config, chunks, single_pass, i,
                   all_csv_data, invokes, files, write_errors, output_file,
                   injected, outcome>>

CleanNext == CleanOnce \/ CleanAgain

SpecClean == CleanInit /\ [][CleanNext]_vars

(***************************************************************************)
(* The deterministic path: pdf_to_csv of basic.py.  A document is the      *)
(* sequence of its pages' extracted texts.                                 *)
(***************************************************************************)
\* max_len of _find_common_prefix, as pdf_to_csv passes it.
PrefixMaxLen == 1000

\* "Only strip meaningful prefixes": the least stripped length.
MinPrefixLen == 10

\* The slice s[:n], which stops at the end of s.
Take(s, n) == SubSeq(s, 1, Min(n, Len(s)))

\* The while loop of _find_common_prefix: how far s0 and s agree, up to
\* prefix_len.
MatchLen(s0, s, prefix_len) ==
    LET lim == Min(prefix_len, Len(s))
        differ == {j \in 1..lim : s0[j] # s[j]}
    IN  IF differ = {} THEN lim
        ELSE (CHOOSE j \in differ : \A k \in differ : j <= k) - 1

RECURSIVE PrefixLenOver(_, _, _, _)
PrefixLenOver(s0, strings, max_len, prefix_len) ==
    IF strings = <<>> THEN prefix_len
    ELSE LET n == MatchLen(s0, Take(Head(strings), max_len), prefix_len)
         IN  IF n = 0 THEN 0
             ELSE PrefixLenOver(s0, Tail(strings), max_len, n)

FindCommonPrefix(strings, max_len) ==
    IF strings = <<>> THEN <<>>
    ELSE LET s0 == Take(strings[1], max_len)
         IN  SubSeq(s0, 1, PrefixLenOver(s0, Tail(strings), max_len, Len(s0)))

\* prefix.rfind("\n") + 1, for a prefix that holds a newline.
LastNewline(s) ==
    CHOOSE k \in DOMAIN s : s[k] = NL /\ \A j \in (k + 1)..Len(s) : s[j] # NL

\* "Optionally remove a common prefix": the pages after the step.
DedupePagesBadRawLength(pages, dedupe_header) ==
    IF dedupe_header /\ Len(pages) > 1
    THEN LET common == FindCommonPrefix(pages, PrefixMaxLen)
             prefix == IF \E k \in DOMAIN common : common[k] = NL
                       THEN SubSeq(common, 1, LastNewline(common))
                       ELSE common
         IN  IF Len(prefix) >= MinPrefixLen
             THEN [k \in DOMAIN pages |->
                     IF StartsWith(pages[k], prefix)
                     THEN Drop(pages[k], Len(prefix)) ELSE pages[k]]
             ELSE pages
    ELSE pages

DedupePages(pages, dedupe_header) ==
    IF dedupe_header /\ Len(pages) > 1
    THEN LET common == FindCommonPrefix(pages, PrefixMaxLen)
             prefix == IF \E k \in DOMAIN common : common[k] = NL
                       THEN SubSeq(common, 1, LastNewline(common))
                       ELSE common
         IN  IF Len(Strip(prefix)) >= MinPrefixLen
             THEN [k \in DOMAIN pages |->
                     IF StartsWith(pages[k], prefix)
                     THEN Drop(pages[k], Len(prefix)) ELSE pages[k]]
             ELSE pages
    ELSE pages

\* str.replace(old, new): leftmost, non-overlapping occurrences.
RECURSIVE Replace(_, _, _)
Replace(s, old, new) ==
    IF s = <<>> THEN <<>>
    ELSE IF StartsWith(s, old) THEN new \o Replace(Drop(s, Len(old)), old, new)
    ELSE <<Head(s)>> \o Replace(Tail(s), old, new)

\* The length of the longest run of characters of `chars` that s begins with.
RECURSIVE RunLen(_, _)
RunLen(s, chars) ==
    IF s # <<>> /\ Head(s) \in chars THEN 1 + RunLen(Tail(s), chars) ELSE 0

\* re.sub of a run of at least `least` characters of `chars` by `repl`.
RECURSIVE SubRuns(_, _, _, _)
SubRuns(s, chars, least, repl) ==
    IF s = <<>> THEN <<>>
    ELSE LET run == RunLen(s, chars)
         IN  IF run >= least
             THEN repl \o SubRuns(Drop(s, run), chars, least, repl)
             ELSE IF run > 0
             THEN SubSeq(s, 1, run) \o SubRuns(Drop(s, run), chars, least, repl)
             ELSE <<Head(s)>> \o SubRuns(Tail(s), chars, least, repl)

\* _normalize_text
NormalizeText(text, preserve_newlines) ==
    LET lf == Replace(text, <<"\r", NL>>, <<NL>>)
    IN  IF preserve_newlines
        THEN Strip(SubRuns(lf, {NL}, 2, <<NL>>))
        ELSE Strip(SubRuns(lf, Whitespace, 1, <<" ">>))

\* Whether the name csv is bound in basic.py: the module imports PyPDF2,
\* BytesIO, re and List, and not csv.
CsvBound == FALSE

\* The rows csv.writer is given: the header row and one row per page.
CsvRows(pages, preserve_newlines) ==
    << <<"page", "text">> >>
    \o [k \in 1..Len(pages) |-> <<k, NormalizeText(pages[k], preserve_newlines)>>]

BasicMaxPages == 2

\* How a page may begin:
\* a line of 11 characters; a short line; nothing; 14 characters without a
\* line break; a line of 9 characters and more; a line of 12 characters of
\* which 8 are not blanks.
PageHeads ==
    { <<"1", "1", " ", "G", "R", "A", "C", "E", " ", "R", "D", NL>>,
      <<"H", "D", "R", NL>>,
      <<>>,
      <<"A", "C", "M", "E", " ", "C", "O", "R", "P", " ", "L", "T", "D", " ">>,
      <<"A", "C", "M", "E", " ", "C", "O", "R", "P", NL, "L", "T", "D", " ">>,
      <<" ", " ", "A", "B", "C", "D", "E", "F", "G", "H", " ", NL>> }

\* How it may go on; a page whose extraction fails or gives nothing is "".
PageBodies ==
    { <<"p", "a", "g", "e", "1", " ", "a">>,
      <<"p", "a", "g", "e", "2">>,
      <<"x">>,
      <<"b", NL, "c">>,
      <<" ", "a", "\r", NL, NL, "b", "\t", " ", "c", NL>>,
      <<>> }

\* A page longer than PrefixMaxLen: "a" throughout but for one character
\* beyond the first PrefixMaxLen.
LongPage(c) ==
    [k \in 1..(PrefixMaxLen + 5) |-> IF k = PrefixMaxLen + 3 THEN c ELSE "a"]

Documents ==
    { [k \in 1..n |-> hb[k][1] \o hb[k][2]] :
        n \in 1..BasicMaxPages,
        hb \in [1..BasicMaxPages -> PageHeads \X PageBodies] }
    \cup { <<LongPage("x"), LongPage("y")>> }

BasicInit ==
    /\ llms = [p \in {} |-> 0]
    /\ calls = 0
    /\ pc = "basic_idle"
    /\ mode = "none"
    /\ args \in [pages : Documents,
                 dedupe_header : BOOLEAN,
                 preserve_newlines : BOOLEAN]
    /\ config = 0
    /\ chunks = <<>>
    /\ single_pass = FALSE
    /\ i = 0
    /\ all_csv_data = <<>>
    /\ invokes = <<>>
    /\ files = EmptyFiles
    /\ write_errors = {}
    /\ output_file = "none"
    /\ yielded = <<>>
    /\ injected = "none"
    /\ outcome = NoOutcome

\* pdf_to_csv: the pages are read and deduped (`chunks` keeps the local
\* `pages`), the output file is opened, and csv.writer is reached.  With csv
\* unbound the name lookup raises NameError and the file stays as the open
\* left it, empty; otherwise the rows are written and 0 is returned.
PdfToCsv ==
    /\ pc = "basic_idle"
    /\ chunks' = DedupePages(args.pages, args.dedupe_header)
    /\ \E open_ok \in BOOLEAN :
          IF ~open_ok
          THEN /\ files' = files
               /\ outcome' = Raised("OSError", "open_failed", 0, "none")
          ELSE IF CsvBound
          THEN /\ files' = SaveToFile(files, OutputSink,
                                      CsvRows(chunks', args.preserve_newlines),
                                      "ok")
               /\ outcome' = Returned(0)
          ELSE /\ files' = SaveToFile(files, OutputSink, <<>>, "ok")
               /\ outcome' = Raised("NameError", "name_csv_is_not_defined", 0,
                                    "none")
    /\ pc' = "basic_done"
    /\ UNCHANGED <<llms, calls, mode, args, config, single_pass, i,
                   all_csv_data, invokes, write_errors, output_file, yielded,
                   injected>>

BasicNext == PdfToCsv

SpecBasic == BasicInit /\ [][BasicNext]_vars

(***************************************************************************)
(* Responses made of rows: convert over documents whose chunks hold data   *)
(* rows, the provider answering with or without a header row.              *)
(***************************************************************************)
RowsMaxPages == 3

HeaderRow == <<"h">>

\* A header row and two data rows; the two data rows alone; one data row
\* alone; the header row alone.
RowContents ==
    { <<"h", NL, "3", NL, "4">>,
      <<"3", NL, "4">>,
      <<"5">>,
      <<"h">> }

RowOutcomes == { [kind |-> "content", content |-> c] : c \in RowContents }

RowsCallArgs ==
    [llm_type : LlmTypes,
     max_pages_per_chunk : {1},
     auto_chunk : {TRUE},
     remove_header_if_not_first : BOOLEAN,
     output : BOOLEAN,
     max_retries : RetryChoices,
     page_count : 1..RowsMaxPages]

RowsConvert ==
    /\ pc = "idle"
    /\ calls < MaxCalls
    /\ \E a \in RowsCallArgs, doc \in DocStates, import_ok \in BOOLEAN :
          StartBatch("convert", a,
                     GetMaxChunkPages(a.llm_type, a.max_pages_per_chunk),
                     "failed_to_read_pdf", "failed_to_convert_pdf",
                     doc, import_ok)

RowsChunkSucceeds ==
    /\ pc = "running"
    /\ \E o \in RowOutcomes : ChunkSucceeds(o)

RowsNext ==
    \/ CallEnds
    \/ RowsConvert
    \/ RowsChunkSucceeds
    \/ BatchChunkFails

SpecRows == Init /\ [][RowsNext]_vars

(***************************************************************************)
(* PdfUtils.extract_text on its own: the document's pages are what         *)
(* page.extract_text() does on each of them.                               *)
(***************************************************************************)
ExtractMaxPages == 3

\* page.extract_text() raises, returns None, or returns a text.
PageResults ==
    { [kind |-> "raises", text |-> <<>>],
      [kind |-> "none", text |-> <<>>] }
    \cup { [kind |-> "text", text |-> t] :
             t \in { <<" ">>, <<"a">>, <<"b", NL>>, <<NL, "c">> } }

\* text = page.extract_text() or "", and "" when it raises.
PageText(result) == IF result.kind = "text" THEN result.text ELSE <<>>

PageSequences ==
    UNION { [1..n -> PageResults] : n \in 0..ExtractMaxPages }

ExtractInit ==
    /\ llms = [p \in {} |-> 0]
    /\ calls = 0
    /\ pc = "unextracted"
    /\ mode = "none"
    /\ args \in [reader_ok : BOOLEAN, pages : PageSequences]
    /\ config = 0
    /\ chunks = <<>>
    /\ single_pass = FALSE
    /\ i = 0
    /\ all_csv_data = <<>>
    /\ invokes = <<>>
    /\ files = EmptyFiles
    /\ write_errors = {}
    /\ output_file = "none"
    /\ yielded = <<>>
    /\ injected = "none"
    /\ outcome = None

\* extract_text(pdf_data): `outcome` is what it returns.
ExtractTextCall ==
    /\ pc = "unextracted"
    /\ outcome' = ExtractText(args.reader_ok,
                              [k \in DOMAIN args.pages |-> PageText(args.pages[k])])
    /\ pc' = "extracted"
    /\ UNCHANGED <<llms, calls, mode, args, config, chunks, single_pass, i,
                   all_csv_data, invokes, files, write_errors, output_file,
                   yielded, injected>>

ExtractNext == ExtractTextCall

SpecExtract == ExtractInit /\ [][ExtractNext]_vars

(***************************************************************************)
(* Reading the log of a call                                               *)
(***************************************************************************)
Batch == mode \in {"convert", "smart_convert"}

Streaming == mode = "convert_streaming"

Succeeded(k) == ConvertChunk(invokes[k].outcome).ok

FailedInvokes == {k \in DOMAIN invokes : ~Succeeded(k)}

SucceededInvokes == {k \in DOMAIN invokes : Succeeded(k)}

\* The 0-based index of the chunk whose conversion failed (one at most).
FailedChunk == invokes[CHOOSE k \in FailedInvokes : TRUE].chunk

\* The cause of that failure.
FailureCause ==
    ConvertChunk(invokes[CHOOSE k \in FailedInvokes : TRUE].outcome).err

\* What the k-th invocation should contribute: its cleaned response, less
\* the header row for a continuation chunk when the caller asked for that.
ExpectedText(k) ==
    LET cleaned == CleanResponse(invokes[k].outcome.content).val
    IN  IF args.remove_header_if_not_first /\ invokes[k].chunk > 0
           /\ Len(SplitLines(cleaned)) > 1
        THEN JoinLines(Tail(SplitLines(cleaned)))
        ELSE cleaned

ExpectedTexts(n) == [k \in 1..n |-> ExpectedText(k)]

\* parts glued with exactly one newline between neighbours.
RECURSIVE Glue(_)
Glue(parts) ==
    IF parts = <<>> THEN <<>>
    ELSE IF Len(parts) = 1 THEN parts[1]
    ELSE Glue(SubSeq(parts, 1, Len(parts) - 1)) \o <<NL>> \o parts[Len(parts)]

(***************************************************************************)
(* C1: once the conversion of a chunk has failed, no provider invocation   *)
(* is issued for any later chunk in the same run: a failed invocation is   *)
(* the last one of the run and no invocation names a later chunk.          *)
(***************************************************************************)
C1_NoInvokeAfterFailure ==
    \A k \in FailedInvokes :
        /\ k = Len(invokes)
        /\ \A m \in DOMAIN invokes : invokes[m].chunk <= invokes[k].chunk

C1_Witness ==
    /\ pc = "done"
    /\ FailedInvokes # {}
    /\ FailedChunk = 1
    /\ Len(chunks) >= 3

(***************************************************************************)
(* C2: the planned page ranges start at page 1, are contiguous, end at     *)
(* totalPages, are never empty, hold at most pagesPerChunk pages, and      *)
(* cover every page of the document exactly once.                          *)
(***************************************************************************)
C2_ChunkCoverage ==
    pc = "planned" =>
        LET total == args.page_count
            n == Len(chunks)
        IN  /\ n >= 1
            /\ chunks[1].start_page = 1
            /\ chunks[n].end_page = total
            /\ \A k \in 1..(n - 1) :
                  chunks[k + 1].start_page = chunks[k].end_page + 1
            /\ \A k \in 1..n :
                  /\ chunks[k].start_page <= chunks[k].end_page
                  /\ chunks[k].end_page - chunks[k].start_page + 1 <= config
                  /\ chunks[k].total_pages = total
            /\ \A page \in 1..total :
                  Cardinality({k \in 1..n :
                                  /\ chunks[k].start_page <= page
                                  /\ page <= chunks[k].end_page}) = 1

C2_Witness ==
    /\ pc = "planned"
    /\ Len(chunks) = 3
    /\ chunks[3].end_page - chunks[3].start_page + 1 < config

(***************************************************************************)
(* C3: at every point of a run the accumulator holds the texts of the      *)
(* successfully converted chunks, chunk 0 first, none skipped or repeated, *)
(* each the cleaned response after the header policy; the value a batch    *)
(* convert returns is those texts joined by single newlines.               *)
(***************************************************************************)
C3_AccumulatorIsOrderedConcatenation ==
    LET n == Cardinality(SucceededInvokes)
    IN  /\ \A k \in DOMAIN invokes : invokes[k].chunk = k - 1
        /\ SucceededInvokes = 1..n
        /\ ~single_pass => all_csv_data = ExpectedTexts(n)
        /\ (Batch /\ outcome.kind = "returned") =>
              outcome.result = Glue(ExpectedTexts(n))

C3_Witness ==
    /\ Batch
    /\ outcome.kind = "returned"
    /\ Len(all_csv_data) >= 3
    /\ all_csv_data[2] # CleanResponse(invokes[2].outcome.content).val
    /\ all_csv_data[1] = CleanResponse(invokes[1].outcome.content).val
    /\ invokes[1].outcome.content # all_csv_data[1]

(***************************************************************************)
(* C4: in batch convert, when chunk i >= 1 fails after chunks 0..i-1       *)
(* succeeded, the call does not raise: it returns the texts of chunks      *)
(* 0..i-1 joined by newlines.                                              *)
(***************************************************************************)
C4_PartialReturnedNotRaised ==
    (Batch /\ pc = "done" /\ FailedInvokes # {} /\ FailedChunk >= 1) =>
        /\ outcome.kind = "returned"
        /\ outcome.result = Glue(ExpectedTexts(FailedChunk))

C4_Witness ==
    /\ Batch
    /\ pc = "done"
    /\ FailedInvokes # {}
    /\ FailedChunk = 2
    /\ outcome.kind = "returned"

(***************************************************************************)
(* C5 as stated: the outcome of a batch convert tells the caller whether   *)
(* the run completed.  convert returns the CSV string and nothing else,    *)
(* so the one signal its outcome gives is a normal return: that return     *)
(* would have to mean that every planned chunk succeeded.                  *)
(***************************************************************************)
C5_ReturnSignalsCompletion ==
    (Batch /\ pc = "done" /\ invokes # <<>>) =>
        (outcome.kind = "returned" <=> FailedInvokes = {})

(***************************************************************************)
(* C5 amended: a batch convert returns normally both when every planned    *)
(* chunk succeeded and when a chunk after the first failed, and then the   *)
(* returned string is the partial accumulation; the .incomplete and        *)
(* .partial_N sinks are the only mark of a partial return: none exists     *)
(* after a complete run, .incomplete is written after a partial one when   *)
(* an output path was designated, and nothing is when none was.            *)
(***************************************************************************)
C5_ReturnCarriesNoCompletionFlag ==
    (Batch /\ pc = "done" /\ invokes # <<>>) =>
        /\ outcome.kind = "returned"
              <=> (FailedInvokes = {} \/ FailedChunk >= 1)
        /\ (outcome.kind = "returned" /\ FailedInvokes = {}) =>
              DOMAIN files \subseteq {OutputSink}
        /\ (outcome.kind = "returned" /\ FailedInvokes # {}) =>
              /\ outcome.result = Glue(all_csv_data)
              /\ (args.output /\ IncompleteSink \notin write_errors)
                    => (/\ IncompleteSink \in DOMAIN files
                        /\ files[IncompleteSink] = outcome.result)
              /\ ~args.output => files = EmptyFiles

C5_Witness ==
    /\ Batch
    /\ pc = "done"
    /\ outcome.kind = "returned"
    /\ FailedInvokes # {}
    /\ ~args.output
    /\ outcome.result # <<>>

(***************************************************************************)
(* C6 as stated: a batch convert raises because of a chunk failure if and  *)
(* only if the failing chunk is the first, and the error raised carries    *)
(* the failing chunk's index and the underlying cause (stated for a        *)
(* document of at least one page).                                         *)
(***************************************************************************)
C6_RaiseCarriesIndexAndCause ==
    (Batch /\ pc = "done" /\ FailedInvokes # {} /\ args.page_count >= 1) =>
        /\ outcome.kind = "raised" <=> FailedChunk = 0
        /\ outcome.kind = "raised" =>
              /\ outcome.error.exc = "PdfConverterException"
              /\ outcome.error.chunk = FailedChunk + 1
              /\ outcome.error.cause = FailureCause

(***************************************************************************)
(* C6 amended: a batch convert raises because of a chunk failure if and    *)
(* only if the failing chunk is the first, whatever the other arguments;   *)
(* the error carries the underlying cause, and it carries the failing      *)
(* chunk's index when the document was chunked (the error of the           *)
(* single-pass conversion names no chunk).                                 *)
(***************************************************************************)
C6_RaiseIffFirstChunkFails ==
    (Batch /\ pc = "done" /\ FailedInvokes # {}) =>
        /\ outcome.kind = "raised" <=> FailedChunk = 0
        /\ outcome.kind = "raised" =>
              /\ outcome.error.exc = "PdfConverterException"
              /\ outcome.error.cause = FailureCause
              /\ ~single_pass => outcome.error.chunk = FailedChunk + 1
              /\ single_pass => outcome.error.chunk = 0

C6_Witness ==
    /\ Batch
    /\ pc = "done"
    /\ ~single_pass
    /\ outcome.kind = "raised"
    /\ outcome.error.chunk = 1
    /\ outcome.error.cause = "empty_after_clean"

(***************************************************************************)
(* C7: when a batch convert fails because its first (or only) chunk        *)
(* fails, no sink is written nor is any write attempted: not the final     *)
(* output, not .incomplete, not any .partial_N.                            *)
(***************************************************************************)
C7_NoSinkOnFirstChunkFailure ==
    (Batch /\ pc = "done" /\ FailedInvokes # {} /\ FailedChunk = 0) =>
        /\ files = EmptyFiles
        /\ write_errors = {}

C7_Witness ==
    /\ Batch
    /\ pc = "done"
    /\ FailedInvokes # {}
    /\ FailedChunk = 0
    /\ args.output
    /\ ~single_pass
    /\ outcome.kind = "raised"

(***************************************************************************)
(* C8 as stated: on a failure of chunk i with a non-empty accumulator the  *)
(* joined accumulator is written to partial_i, and also to .incomplete if  *)
(* an output path was designated (a write that reported a failure is left  *)
(* out of the statement).                                                  *)
(***************************************************************************)
C8_PartialSinkAlwaysWritten ==
    (/\ Batch /\ pc = "done" /\ FailedInvokes # {} /\ FailedChunk >= 1
     /\ write_errors = {}) =>
        /\ PartialSink(FailedChunk) \in DOMAIN files
        /\ files[PartialSink(FailedChunk)] = Glue(ExpectedTexts(FailedChunk))
        /\ args.output =>
              /\ IncompleteSink \in DOMAIN files
              /\ files[IncompleteSink] = Glue(ExpectedTexts(FailedChunk))

(***************************************************************************)
(* C8 amended: on a failure of chunk i with a non-empty accumulator, if a  *)
(* final output path was designated the joined accumulator is written to   *)
(* <output>.partial_i and to <output>.incomplete, and each of the two      *)
(* whose write reported no failure holds exactly the texts of chunks       *)
(* 0..i-1 joined by newline; if none was designated neither is written.    *)
(***************************************************************************)
C8_PartialSinksWhenOutputDesignated ==
    (Batch /\ pc = "done" /\ FailedInvokes # {} /\ FailedChunk >= 1) =>
        /\ args.output =>
              \A sink \in {PartialSink(FailedChunk), IncompleteSink} :
                  sink \notin write_errors =>
                      /\ sink \in DOMAIN files
                      /\ files[sink] = Glue(ExpectedTexts(FailedChunk))
        /\ \A k \in 0..Len(chunks) :
              (PartialSink(k) \in DOMAIN files) => k = FailedChunk
        /\ ~args.output => files = EmptyFiles

C8_Witness ==
    /\ Batch
    /\ pc = "done"
    /\ FailedInvokes # {}
    /\ FailedChunk = 2
    /\ args.output
    /\ write_errors = {}
    /\ PartialSink(2) \in DOMAIN files
    /\ IncompleteSink \in DOMAIN files
    /\ files[PartialSink(2)] = files[IncompleteSink]

(***************************************************************************)
(* C9: after a batch convert the sinks tell a fully converted document     *)
(* from one that stopped early: the final output path holds the result     *)
(* only when every chunk succeeded, and a run stopped at chunk N leaves    *)
(* its content only in the .partial_N and .incomplete sinks.               *)
(***************************************************************************)
C9_FinalOutputOnlyWhenComplete ==
    (Batch /\ pc = "done") =>
        /\ OutputSink \in DOMAIN files => FailedInvokes = {}
        /\ FailedInvokes # {} =>
              DOMAIN files \subseteq {PartialSink(FailedChunk), IncompleteSink}

(***************************************************************************)
(* C10 as stated: in convert_streaming, if chunk k >= 2 (1-based) is the   *)
(* first to fail, the consumer has received exactly the texts of chunks    *)
(* 1..k-1 in order, the sequence ends without raising, and the sink        *)
(* partial_{k-1} holds those texts joined by newline (a write that         *)
(* reported a failure is left out of the statement).                       *)
(***************************************************************************)
C10_StreamEarlyStopWritesPartial ==
    (/\ Streaming /\ pc = "done" /\ FailedInvokes # {} /\ FailedChunk >= 1
     /\ PartialSink(FailedChunk) \notin write_errors) =>
        /\ yielded = ExpectedTexts(FailedChunk)
        /\ outcome.kind = "exhausted"
        /\ PartialSink(FailedChunk) \in DOMAIN files
        /\ files[PartialSink(FailedChunk)] = Glue(ExpectedTexts(FailedChunk))

(***************************************************************************)
(* C10 amended: in convert_streaming, if chunk k >= 2 (1-based) is the     *)
(* first to fail, the consumer has received exactly the texts of chunks    *)
(* 1..k-1 in order and the sequence ends without raising; if an output     *)
(* path was designated, <output>.partial_{k-1} is written and, when its    *)
(* write reported no failure, holds those texts joined by newline; if      *)
(* none was designated no sink is written.                                 *)
(***************************************************************************)
C10_StreamEarlyStop ==
    (Streaming /\ pc = "done" /\ FailedInvokes # {} /\ FailedChunk >= 1) =>
        /\ yielded = ExpectedTexts(FailedChunk)
        /\ outcome.kind = "exhausted"
        /\ (args.output /\ PartialSink(FailedChunk) \notin write_errors) =>
              /\ PartialSink(FailedChunk) \in DOMAIN files
              /\ files[PartialSink(FailedChunk)]
                    = Glue(ExpectedTexts(FailedChunk))
        /\ ~args.output => files = EmptyFiles

C10_Witness ==
    /\ Streaming
    /\ pc = "done"
    /\ FailedInvokes # {}
    /\ FailedChunk = 2
    /\ Len(yielded) = 2
    /\ args.output
    /\ PartialSink(2) \in DOMAIN files
    /\ files[PartialSink(2)] = Glue(yielded)
    /\ outcome.kind = "exhausted"

(***************************************************************************)
(* C11 as stated: in convert_streaming, a chunk failure with a non-empty   *)
(* accumulator writes the partial_{chunkIndex} sink and, when an output    *)
(* path was designated, also writes the same content to the .incomplete    *)
(* sink (runs in which a write reported a failure are left out).           *)
(***************************************************************************)
C11_StreamFailureWritesIncomplete ==
    (/\ Streaming /\ pc = "done" /\ FailedInvokes # {} /\ all_csv_data # <<>>
     /\ write_errors = {}) =>
        /\ PartialSink(FailedChunk) \in DOMAIN files
        /\ args.output =>
              /\ IncompleteSink \in DOMAIN files
              /\ files[IncompleteSink] = files[PartialSink(FailedChunk)]

(***************************************************************************)
(* C11 amended: in convert_streaming, a chunk failure with a non-empty     *)
(* accumulator persists partial results only when an output path was       *)
(* designated, and only to the partial_{chunkIndex} sink, which holds the  *)
(* joined accumulator when its write reported no failure; the .incomplete  *)
(* sink is never written, and without an output path no sink is written.   *)
(***************************************************************************)
C11_StreamFailurePersistence ==
    (Streaming /\ pc = "done" /\ FailedInvokes # {} /\ all_csv_data # <<>>) =>
        /\ IncompleteSink \notin DOMAIN files
        /\ DOMAIN files \subseteq {OutputSink, PartialSink(FailedChunk)}
        /\ (args.output /\ PartialSink(FailedChunk) \notin write_errors) =>
              /\ PartialSink(FailedChunk) \in DOMAIN files
              /\ files[PartialSink(FailedChunk)] = JoinLines(all_csv_data)
        /\ ~args.output => files = EmptyFiles

C11_Witness ==
    /\ Streaming
    /\ pc = "done"
    /\ FailedInvokes # {}
    /\ Len(all_csv_data) = 1
    /\ args.output
    /\ write_errors = {}
    /\ DOMAIN files = {OutputSink, PartialSink(1)}
    /\ files[PartialSink(1)] = all_csv_data[1]

(***************************************************************************)
(* C12: in convert_streaming the output sink, once opened, is closed       *)
(* however the sequence ends (after the last chunk, after a chunk failure, *)
(* after an exception thrown in by the consumer at a yield, after the      *)
(* consumer closed the sequence early): no ended call has it still open.   *)
(***************************************************************************)
C12_SinkClosedAtEveryEnd ==
    (Streaming /\ pc = "done") =>
        /\ output_file # "open"
        /\ OutputSink \in DOMAIN files => output_file = "closed"

C12_Witness ==
    /\ Streaming
    /\ pc = "done"
    /\ injected = "close"
    /\ outcome.kind = "closed"
    /\ Len(yielded) = 1
    /\ Len(chunks) > 1
    /\ OutputSink \in DOMAIN files
    /\ output_file = "closed"

(***************************************************************************)
(* C13: in convert_streaming, at the moment a successful chunk's text is   *)
(* delivered to the consumer it is already the last element of the         *)
(* accumulator and, when the output sink is open, its write to the sink    *)
(* (the text, then a newline unless it is the last chunk) has already been *)
(* made: the sink holds it, or the failure of that write was reported.     *)
(***************************************************************************)
RECURSIVE StreamWritten(_, _)
StreamWritten(items, n_chunks) ==
    IF items = <<>> THEN <<>>
    ELSE StreamWritten(SubSeq(items, 1, Len(items) - 1), n_chunks)
         \o items[Len(items)]
         \o (IF Len(items) < n_chunks THEN <<NL>> ELSE <<>>)

C13_DeliveredAfterAppendAndWrite ==
    (Streaming /\ pc = "suspended") =>
        /\ yielded # <<>>
        /\ all_csv_data = yielded
        /\ output_file = "open" =>
              \/ OutputSink \in write_errors
              \/ files[OutputSink] = StreamWritten(yielded, Len(chunks))

C13_Witness ==
    /\ Streaming
    /\ pc = "suspended"
    /\ Len(yielded) = 2
    /\ Len(chunks) = 3
    /\ output_file = "open"
    /\ OutputSink \notin write_errors
    /\ files[OutputSink] = yielded[1] \o <<NL>> \o yielded[2] \o <<NL>>

(***************************************************************************)
(* C14: in convert_streaming a preparation failure (the page count cannot  *)
(* be read, or the chunks cannot be planned) ends the call with a raised   *)
(* PdfConverterException before anything is yielded, before any provider   *)
(* invocation and before the output sink is opened; and a streaming call   *)
(* that has invoked, yielded or opened the sink never ends by raising.     *)
(***************************************************************************)
C14_PreparationFailureComesFirst ==
    /\ (/\ Streaming /\ outcome.kind = "raised"
        /\ outcome.error.msg = "failed_to_prepare_pdf") =>
          /\ pc = "done"
          /\ outcome.error.exc = "PdfConverterException"
          /\ yielded = <<>>
          /\ invokes = <<>>
          /\ chunks = <<>>
          /\ output_file = "none"
          /\ files = EmptyFiles
    /\ (/\ Streaming
        /\ (invokes # <<>> \/ yielded # <<>> \/ output_file # "none"
            \/ files # EmptyFiles)) =>
          outcome.kind # "raised"

C14_Witness ==
    /\ Streaming
    /\ pc = "done"
    /\ args.output
    /\ args.llm_type \in Registered
    /\ outcome.kind = "raised"
    /\ outcome.error.msg = "failed_to_prepare_pdf"
    /\ files = EmptyFiles

(***************************************************************************)
(* C15: every attempted chunk gets exactly one invoke, in chunk order and  *)
(* never a second one; an invoke that throws is the last invoke of the     *)
(* call and ends it; and a call that ran to its own end (batch, or a       *)
(* stream its consumer neither closed nor threw into) has made (index of   *)
(* the failing chunk + 1) invokes, or as many as there are chunks when     *)
(* none failed.                                                            *)
(***************************************************************************)
C15_OneInvokePerAttemptedChunk ==
    /\ \A k \in DOMAIN invokes : invokes[k].chunk = k - 1
    /\ \A k \in DOMAIN invokes :
          invokes[k].outcome.kind = "throw" =>
              /\ k = Len(invokes)
              /\ pc = "done"
              /\ outcome.kind \in {"raised", "returned", "exhausted"}
    /\ (pc = "done" /\ injected = "none") =>
          Len(invokes) = IF FailedInvokes # {} THEN FailedChunk + 1
                         ELSE Len(chunks)

C15_Witness ==
    /\ Batch
    /\ pc = "done"
    /\ Len(chunks) = 4
    /\ Len(invokes) = 3
    /\ invokes[3].outcome.kind = "throw"
    /\ FailedChunk = 2
    /\ outcome.kind = "returned"

(***************************************************************************)
(* C16: a response whose content is empty, or is empty once the fence      *)
(* markers and the surrounding whitespace are stripped, does to the run    *)
(* what an invoke that throws does: it is the last invoke of the call, the *)
(* call is over, and the outcome and the sinks touched are those of the    *)
(* failure branch, chosen from the accumulator and the output path alone   *)
(* (only the recorded cause tells the two kinds of failure apart).         *)
(***************************************************************************)
EmptyResponse(o) ==
    /\ o.kind = "content"
    /\ Strip(Remove(Remove(o.content, FenceCsv), Fence)) = <<>>

\* The outcome of the failure branch, whatever failed.
FailureOutcome(cause) ==
    IF Streaming THEN Ended("exhausted")
    ELSE IF single_pass
    THEN Raised("PdfConverterException", "failed_to_convert_pdf", 0, cause)
    ELSE IF all_csv_data = <<>>
    THEN Raised("PdfConverterException", "failed_to_convert_any_chunks",
                Len(invokes), cause)
    ELSE Returned(JoinLines(all_csv_data))

\* The sinks the failure branch writes, or reports it could not write.
FailureSinks ==
    IF all_csv_data = <<>> \/ ~args.output THEN {}
    ELSE IF Streaming THEN {PartialSink(Len(invokes) - 1)}
    ELSE {PartialSink(Len(invokes) - 1), IncompleteSink}

C16_EmptyResponseFailsLikeThrow ==
    \A k \in DOMAIN invokes :
        LET o == invokes[k].outcome
        IN  (o.kind = "throw" \/ EmptyResponse(o)) =>
                /\ k = Len(invokes)
                /\ pc = "done"
                /\ [outcome EXCEPT !.error.cause = "any"]
                      = [FailureOutcome("any") EXCEPT !.error.cause = "any"]
                /\ (DOMAIN files \cup write_errors) \ {OutputSink}
                      = FailureSinks

C16_Witness ==
    /\ Batch
    /\ pc = "done"
    /\ Len(invokes) = 2
    /\ EmptyResponse(invokes[2].outcome)
    /\ invokes[2].outcome.content # <<>>
    /\ args.output
    /\ outcome.kind = "returned"
    /\ PartialSink(1) \in DOMAIN files
    /\ IncompleteSink \in DOMAIN files

(***************************************************************************)
(* C17: a provider that has a max_chunk_pages override (groq) never        *)
(* receives, in a convert or a convert_streaming call, a chunk of more     *)
(* pages than the override, whatever max_pages_per_chunk and auto_chunk    *)
(* the caller passed.                                                      *)
(***************************************************************************)
C17_OverrideBoundsEveryChunk ==
    \A k \in DOMAIN invokes :
        args.llm_type = "groq" => invokes[k].pages <= GroqMaxChunkPages

(***************************************************************************)
(* C18: the pages per chunk with which a batch convert plans is the        *)
(* provider's max_chunk_pages override when it has one (groq), otherwise   *)
(* the caller's max_pages_per_chunk, a provider id that is not registered  *)
(* included; the chunks planned are those of that number.                  *)
(***************************************************************************)
C18_EffectivePagesPerChunk ==
    (mode = "convert" /\ pc \in {"running", "done"}) =>
        LET effective == IF args.llm_type = "groq" THEN GroqMaxChunkPages
                         ELSE args.max_pages_per_chunk
        IN  /\ config = effective
            /\ (chunks # <<>> /\ ~single_pass) =>
                  chunks = SplitIntoChunks(args.page_count, effective)

C18_Witness ==
    /\ mode = "convert"
    /\ pc = "done"
    /\ args.llm_type = "groq"
    /\ args.max_pages_per_chunk = GroqMaxChunkPages - 2
    /\ args.page_count = GroqMaxChunkPages + 2
    /\ config = GroqMaxChunkPages
    /\ Len(chunks) = 2
    /\ Len(invokes) = 2
    /\ invokes[1].pages = GroqMaxChunkPages
    /\ invokes[2].pages = 2

(***************************************************************************)
(* C19: a batch convert plans chunks exactly when auto_chunk is set and    *)
(* the page count exceeds the effective pages per chunk; otherwise it      *)
(* issues exactly one provider invocation, on the whole document, as a     *)
(* first chunk.  (The effective number is get_max_chunk_pages in ai.py;    *)
(* pdfconv_smart.py knows no override and uses the caller's number.)       *)
(***************************************************************************)
EffectivePagesPerChunk ==
    IF mode = "convert"
    THEN GetMaxChunkPages(args.llm_type, args.max_pages_per_chunk)
    ELSE args.max_pages_per_chunk

C19_ChunkingDecision ==
    (Batch /\ pc \in {"running", "done"} /\ chunks # <<>>) =>
        LET should_chunk == /\ args.auto_chunk
                            /\ args.page_count > EffectivePagesPerChunk
        IN  /\ single_pass = ~should_chunk
            /\ should_chunk =>
                  chunks = SplitIntoChunks(args.page_count,
                                           EffectivePagesPerChunk)
            /\ ~should_chunk =>
                  /\ chunks = <<PdfChunk(1, args.page_count, args.page_count)>>
                  /\ Len(invokes) <= 1
                  /\ pc = "done" =>
                        /\ Len(invokes) = 1
                        /\ invokes[1].chunk = 0
                        /\ invokes[1].is_first
                        /\ ~invokes[1].omit_header
                        /\ invokes[1].pages = args.page_count

C19_Witness ==
    /\ mode = "convert"
    /\ pc = "done"
    /\ args.auto_chunk
    /\ args.remove_header_if_not_first
    /\ args.page_count = 2
    /\ args.max_pages_per_chunk = 2
    /\ args.llm_type = "openai"
    /\ single_pass
    /\ Len(invokes) = 1
    /\ invokes[1].pages = 2
    /\ outcome.kind = "returned"

(***************************************************************************)
(* C20: convert_streaming plans as batch convert does: for the same        *)
(* document, provider id and max_pages_per_chunk (auto_chunk on) its       *)
(* chunks are the page ranges batch convert would process, and when every  *)
(* chunk succeeds its items joined by newline are the string batch convert *)
(* returns for the same provider responses.                                *)
(***************************************************************************)
\* The chunks convert (ai.py) processes for arguments a.
BatchPlan(a) ==
    LET effective == GetMaxChunkPages(a.llm_type, a.max_pages_per_chunk)
    IN  IF a.auto_chunk /\ a.page_count > effective
        THEN SplitIntoChunks(a.page_count, effective)
        ELSE <<PdfChunk(1, a.page_count, a.page_count)>>

\* What convert (ai.py) returns when its chunks get the responses logged.
BatchResult(a) ==
    LET effective == GetMaxChunkPages(a.llm_type, a.max_pages_per_chunk)
        chunked == a.auto_chunk /\ a.page_count > effective
        text(k) == CleanResponse(invokes[k].outcome.content).val
    IN  IF chunked
        THEN JoinLines([k \in DOMAIN invokes |->
                          ApplyHeaderPolicy(a.remove_header_if_not_first,
                                            k - 1, text(k))])
        ELSE text(1)

C20_StreamingPlansLikeBatch ==
    (/\ Streaming /\ pc \in {"looping", "suspended", "done"}
     /\ config # 0 /\ outcome.kind # "raised") =>
        /\ chunks = BatchPlan(args)
        /\ (pc = "done" /\ injected = "none" /\ FailedInvokes = {}) =>
              JoinLines(yielded) = BatchResult(args)

(***************************************************************************)
(* C21: over any sequence of convert and convert_streaming calls on one    *)
(* converter the client cache changes only by the insertion of the client  *)
(* for the provider id the call names, made when the id is not cached yet, *)
(* at the start of the call and before any chunk: an entry is never        *)
(* removed and never replaced (the client made by the first call to        *)
(* create it, with that call's max_retries, serves every chunk and every   *)
(* later call), so at most one client is ever made per provider id.        *)
(***************************************************************************)
C21_CacheGrowsOnlyByMiss ==
    [][/\ \A p \in DOMAIN llms : p \in DOMAIN llms' /\ llms'[p] = llms[p]
       /\ llms' # llms =>
             /\ pc \in {"idle", "created"}
             /\ invokes' = <<>>
             /\ args'.llm_type \in Registered \ DOMAIN llms
             /\ DOMAIN llms' = DOMAIN llms \cup {args'.llm_type}
             /\ llms'[args'.llm_type] = args'.max_retries]_vars

C21_Witness ==
    /\ calls = 3
    /\ pc = "done"
    /\ DOMAIN llms = {"openai", "groq"}
    /\ llms["openai"] = 1
    /\ args.llm_type = "openai"
    /\ args.max_retries = 3
    /\ Len(invokes) = 2
    /\ FailedInvokes = {}

(***************************************************************************)
(* C22: a convert or convert_streaming call that names a provider id which *)
(* is not registered ends, at its first step, with the unknown-provider    *)
(* error of create_client (a ValueError whose message lists the registered *)
(* ids): nothing of the document is planned, no provider invocation is     *)
(* issued, no sink is opened or written, and the client cache is the one   *)
(* the call found.                                                         *)
(***************************************************************************)
C22_UnknownProviderFailsFirst ==
    /\ [](  (mode # "none" /\ args.llm_type \notin Registered) =>
              /\ invokes = <<>>
              /\ yielded = <<>>
              /\ chunks = <<>>
              /\ files = EmptyFiles
              /\ write_errors = {}
              /\ output_file = "none"
              /\ pc \in {"created", "done"}
              /\ Batch => pc = "done"
              /\ (pc = "done" /\ injected = "none") =>
                    /\ outcome.kind = "raised"
                    /\ outcome.error.exc = "ValueError"
                    /\ outcome.error.msg = "unknown_llm_type"  )
    /\ [][(mode' # "none" /\ args'.llm_type \notin Registered) =>
              llms' = llms]_vars

C22_Witness ==
    /\ calls = 2
    /\ pc = "done"
    /\ mode = "convert_streaming"
    /\ args.llm_type = "nosuch"
    /\ DOMAIN llms = {"groq"}
    /\ outcome.kind = "raised"
    /\ outcome.error.exc = "ValueError"
    /\ invokes = <<>>

(***************************************************************************)
(* C23: the header removal is applied to a chunk's cleaned text only when  *)
(* remove_header_if_not_first is set and the chunk is not the first; the   *)
(* first chunk's text, and every chunk's text when the flag is off, enters *)
(* the accumulator (or, in the single pass, the result) exactly as         *)
(* cleaned.  remove_header drops the text up to and including the first    *)
(* newline, and returns a text of one line unchanged.                      *)
(***************************************************************************)
HasNewline(s) == \E k \in DOMAIN s : s[k] = NL

FirstNewline(s) ==
    CHOOSE k \in DOMAIN s : s[k] = NL /\ \A j \in 1..(k - 1) : s[j] # NL

DropFirstLine(s) ==
    IF HasNewline(s) THEN SubSeq(s, FirstNewline(s) + 1, Len(s)) ELSE s

Cleaned(k) == CleanResponse(invokes[k].outcome.content).val

C23_HeaderRemovalPolicy ==
    /\ \A k \in DOMAIN all_csv_data :
          /\ k \in DOMAIN invokes
          /\ all_csv_data[k] = IF args.remove_header_if_not_first /\ k > 1
                               THEN DropFirstLine(Cleaned(k))
                               ELSE Cleaned(k)
    /\ (Batch /\ single_pass /\ outcome.kind = "returned") =>
          outcome.result = Cleaned(1)
    /\ \A k \in SucceededInvokes :
          /\ RemoveHeader(Cleaned(k)) = DropFirstLine(Cleaned(k))
          /\ ~HasNewline(Cleaned(k)) => RemoveHeader(Cleaned(k)) = Cleaned(k)

C23_Witness ==
    /\ Streaming
    /\ args.remove_header_if_not_first
    /\ Len(all_csv_data) = 3
    /\ all_csv_data[1] = <<"h", NL, "2">>
    /\ all_csv_data[2] = <<"2">>
    /\ Cleaned(2) = <<"h", NL, "2">>
    /\ all_csv_data[3] = <<"x">>

(***************************************************************************)
(* C24: no failure of a sink write (the final output, .partial_N,          *)
(* .incomplete, the incremental streaming write, the opening or closing of *)
(* the streaming sink) changes how a call ends: the outcome of a call that *)
(* got as far as its chunks is what the provider responses alone decide    *)
(* (the returned text, the items yielded, or the raised conversion error), *)
(* and a stream whose incremental write failed still processes and yields  *)
(* its later chunks.                                                       *)
(***************************************************************************)
OutcomeFromLog ==
    IF Streaming
    THEN Ended(IF injected = "close" THEN "closed" ELSE "exhausted")
    ELSE IF FailedInvokes = {}
    THEN Returned(JoinLines(ExpectedTexts(Len(invokes))))
    ELSE FailureOutcome(FailureCause)

C24_SinkFailuresAreNotFatal ==
    (pc = "done" /\ ~(invokes = <<>> /\ outcome.kind = "raised")) =>
        /\ outcome = OutcomeFromLog
        /\ Streaming =>
              /\ yielded = ExpectedTexts(Cardinality(SucceededInvokes))
              /\ (injected = "none" /\ FailedInvokes = {}) =>
                    Len(yielded) = Len(chunks)

C24_Witness ==
    /\ Streaming
    /\ pc = "done"
    /\ injected = "none"
    /\ OutputSink \in write_errors
    /\ Len(chunks) = 3
    /\ Len(yielded) = 3
    /\ OutputSink \in DOMAIN files
    /\ files[OutputSink] = yielded[2] \o <<NL>> \o yielded[3]
    /\ outcome.kind = "exhausted"

(***************************************************************************)
(* Reading a message                                                       *)
(***************************************************************************)
Built == pc = "built" /\ outcome.kind = "message"

Contains(s, pat) ==
    \E k \in 0..(Len(s) - Len(pat)) : SubSeq(s, k + 1, k + Len(pat)) = pat

B64Value(c) ==
    IF c = "=" THEN 0 ELSE (CHOOSE v \in 0..63 : B64Alphabet[v + 1] = c)

\* The bytes a base64 text stands for.
RECURSIVE B64Decode(_)
B64Decode(text) ==
    IF Len(text) < 4 THEN <<>>
    ELSE LET n == B64Value(text[1]) * 262144 + B64Value(text[2]) * 4096
                  + B64Value(text[3]) * 64 + B64Value(text[4])
             three == <<n \div 65536, (n \div 256) % 256, n % 256>>
         IN  (IF text[3] = "=" THEN SubSeq(three, 1, 1)
              ELSE IF text[4] = "=" THEN SubSeq(three, 1, 2)
              ELSE three)
             \o B64Decode(SubSeq(text, 5, Len(text)))

C26_GroqGetsMultiPartList ==
    (/\ pc = "built" /\ args.import_ok /\ args.llm_type = "groq"
     /\ args.use_structured_messages /\ ~args.extract_text) =>
        /\ outcome.kind = "message"
        /\ outcome.content.is_list

(***************************************************************************)
(* C27: build_message with use_structured_messages=True and                *)
(* extract_text=False for provider "openai" falls back to one string that  *)
(* contains "data:application/pdf;base64".                                 *)
(***************************************************************************)
C27_OpenaiFallsBackToString ==
    (/\ pc = "built" /\ args.import_ok /\ args.llm_type = "openai"
     /\ args.use_structured_messages /\ ~args.extract_text) =>
        /\ outcome.kind = "message"
        /\ ~outcome.content.is_list
        /\ Contains(outcome.content.text,
                    SubSeq(DataUriPrefix, 1, Len(DataUriPrefix) - 1))

(***************************************************************************)
(* C28: the payload of a message is the extracted text if and only if      *)
(* extract_text was requested and the extraction gave a non-empty text;    *)
(* otherwise it is the data URI of the base64 of the chunk bytes (which    *)
(* decodes to those bytes).  Every message, multi-part or one string,      *)
(* carries exactly one of the two.                                         *)
(***************************************************************************)
C28_ExactlyOnePayload ==
    Built =>
        LET content == outcome.content
            extraction == ExtractText(args.reader_ok, args.page_texts)
            use_text == /\ args.extract_text
                        /\ extraction.some
                        /\ extraction.text # <<>>
            b64 == B64Encode(args.chunk_data)
        IN  /\ B64Decode(b64) = args.chunk_data
            /\ content.is_list =>
                  /\ Len(content.parts) = 2
                  /\ content.parts[2] =
                        IF use_text
                        THEN [type |-> "text", text |-> extraction.text]
                        ELSE [type |-> "image_url",
                              image_url |-> [url |-> DataUriPrefix \o b64]]
            /\ ~content.is_list =>
                  content.text =
                      args.prompt \o
                      (IF use_text THEN ExtractedTextLabel \o extraction.text
                       ELSE AttachedPdfLabel \o DataUriPrefix \o b64)

C28_Witness ==
    /\ Built
    /\ args.extract_text
    /\ args.reader_ok
    /\ args.page_texts = << <<" ">> >>
    /\ args.chunk_data = <<37, 80, 68, 70, 45>>
    /\ ~outcome.content.is_list
    /\ Contains(outcome.content.text,
                DataUriPrefix \o <<"J", "V", "B", "E", "R", "i", "0", "=">>)

(***************************************************************************)
(* C29: clean_response is idempotent: for every text for which it          *)
(* succeeds (those holding fence markers among them), applying it to its   *)
(* own result succeeds and gives the same text; and its result holds no    *)
(* fence marker and neither starts nor ends with whitespace.               *)
(***************************************************************************)
C29_CleanIsIdempotent ==
    /\ (pc \in {"cleaned", "recleaned"} /\ yielded[1].ok) =>
          LET val == yielded[1].val
          IN  /\ val # <<>>
              /\ ~Contains(val, Fence)
              /\ ~Contains(val, FenceCsv)
              /\ val[1] \notin Whitespace
              /\ val[Len(val)] \notin Whitespace
    /\ pc = "recleaned" =>
          /\ yielded[2].ok
          /\ yielded[2].val = yielded[1].val

C29_Witness ==
    /\ pc = "recleaned"
    /\ args.response_content
          = Fence \o <<"c", "s", "v", "a", BT>> \o Fence
    /\ yielded[1].val = <<"a", BT>>
    /\ yielded[2].val = <<"a", BT>>

(***************************************************************************)
(* C30: in pdf_to_csv, for a document of more than one page and with the   *)
(* dedupe on, the longest prefix shared by all pages within their first    *)
(* 1000 characters, cut back to its last line break when it holds one, is  *)
(* taken off every page exactly when its length without the surrounding    *)
(* whitespace is at least 10; in every other case (no such prefix, dedupe  *)
(* off, a single page) the pages go on to the normalization unchanged.     *)
(***************************************************************************)
SharedUpTo(pages, n) ==
    \A k \in DOMAIN pages :
        /\ Len(pages[k]) >= n
        /\ \A j \in 1..n : pages[k][j] = pages[1][j]

LongestSharedPrefix(pages) ==
    LET lens == {n \in 0..Min(PrefixMaxLen, Len(pages[1])) :
                    SharedUpTo(pages, n)}
        longest == CHOOSE n \in lens : \A m \in lens : m <= n
    IN  SubSeq(pages[1], 1, longest)

WholeLines(prefix) ==
    IF HasNewline(prefix) THEN SubSeq(prefix, 1, LastNewline(prefix))
    ELSE prefix

RECURSIVE Words(_)
Words(s) ==
    LET t == LStrip(s)
        n == IF \E k \in DOMAIN t : t[k] \in Whitespace
             THEN (CHOOSE k \in DOMAIN t :
                      t[k] \in Whitespace
                      /\ \A j \in 1..(k - 1) : t[j] \notin Whitespace) - 1
             ELSE Len(t)
    IN  IF t = <<>> THEN <<>> ELSE <<SubSeq(t, 1, n)>> \o Words(Drop(t, n))

RECURSIVE JoinSpaces(_)
JoinSpaces(words) ==
    IF words = <<>> THEN <<>>
    ELSE IF Len(words) = 1 THEN words[1]
    ELSE words[1] \o <<" ">> \o JoinSpaces(Tail(words))

\* CRLF read as LF, and no newline kept after a newline.
RECURSIVE SingleNewlines(_, _)
SingleNewlines(s, after_newline) ==
    IF s = <<>> THEN <<>>
    ELSE IF Len(s) >= 2 /\ s[1] = "\r" /\ s[2] = NL
    THEN SingleNewlines(Tail(s), after_newline)
    ELSE IF Head(s) = NL
    THEN (IF after_newline THEN <<>> ELSE <<NL>>) \o SingleNewlines(Tail(s), TRUE)
    ELSE <<Head(s)>> \o SingleNewlines(Tail(s), FALSE)

Normalized(text, preserve_newlines) ==
    IF preserve_newlines THEN Strip(SingleNewlines(text, FALSE))
    ELSE JoinSpaces(Words(text))

C31_OneNormalizedRowPerPage ==
    (pc = "basic_done" /\ OutputSink \in DOMAIN files) =>
        LET rows == files[OutputSink]
        IN  /\ Len(rows) = Len(args.pages) + 1
            /\ rows[1] = <<"page", "text">>
            /\ \A k \in 1..Len(args.pages) :
                  rows[k + 1]
                    = <<k, Normalized(chunks[k], args.preserve_newlines)>>

(***************************************************************************)
(* C32: the prompt of every invocation carries the CSV-only instruction;   *)
(* it carries the instruction to omit the header row exactly when          *)
(* remove_header_if_not_first is set and the chunk is not the first, and   *)
(* never for the first chunk or for the single pass over the document.     *)
(***************************************************************************)
Carries(prompt, sentence) ==
    \E k \in DOMAIN prompt.sentences : prompt.sentences[k] = sentence

C32_PromptInstructions ==
    \A k \in DOMAIN invokes :
        LET prompt == invokes[k].prompt
            first == invokes[k].chunk = 0
        IN  /\ Carries(prompt, CsvOnlySentence)
            /\ Carries(prompt, OmitHeaderSentence)
                 <=> (args.remove_header_if_not_first /\ ~first /\ ~single_pass)
            /\ (first \/ single_pass) => ~Carries(prompt, OmitHeaderSentence)

C32_Witness ==
    /\ Len(invokes) >= 2
    /\ args.remove_header_if_not_first
    /\ ~Carries(invokes[1].prompt, OmitHeaderSentence)
    /\ Carries(invokes[2].prompt, OmitHeaderSentence)
    /\ invokes[2].prompt.chunk_info = <<3, 4, 4>>

(***************************************************************************)
(* C33: with remove_header_if_not_first set, when the provider answers for *)
(* a continuation chunk without a header row, every row of its answer is   *)
(* in the text accumulated for that chunk, in the answer's order.          *)
(***************************************************************************)
NoHeaderRow(text) ==
    \A k \in DOMAIN SplitLines(text) : SplitLines(text)[k] # HeaderRow

C33_NoDataRowLost ==
    \A k \in DOMAIN all_csv_data :
        (/\ args.remove_header_if_not_first
         /\ k > 1
         /\ k \in DOMAIN invokes
         /\ Carries(invokes[k].prompt, OmitHeaderSentence)
         /\ NoHeaderRow(Cleaned(k)))
        => SplitLines(all_csv_data[k]) = SplitLines(Cleaned(k))

(***************************************************************************)
(* C34: when a convert_streaming run whose output sink was opened ends,    *)
(* after the last chunk or after a chunk failure, and no write reported a  *)
(* failure, the output sink holds the yielded items joined by single       *)
(* newlines with nothing after the last one, and the partial sink written  *)
(* by the run holds the same text.                                         *)
(***************************************************************************)
C34_OutputSinkIsJoinedItems ==
    (/\ Streaming
     /\ pc = "done"
     /\ injected = "none"
     /\ output_file = "closed"
     /\ write_errors = {}) =>
        /\ OutputSink \in DOMAIN files
        /\ files[OutputSink] = Glue(yielded)
        /\ \A sink \in DOMAIN files :
              sink[1] = "partial" => files[sink] = files[OutputSink]

(***************************************************************************)
(* C35: the client a convert or convert_streaming call invokes is          *)
(* configured with the max_retries passed to that call, whatever calls     *)
(* came before on the same converter.                                      *)
(***************************************************************************)
C35_ClientHasTheCallsMaxRetries ==
    invokes # <<>> =>
        /\ args.llm_type \in DOMAIN llms
        /\ llms[args.llm_type] = args.max_retries

(***************************************************************************)
(* C36: in convert_streaming, when the very first chunk fails, the         *)
(* consumer has received nothing and the sequence ends without raising;    *)
(* no partial sink (nor any sink but the opened output) is written, and    *)
(* the output sink, if it was opened, is closed.                           *)
(***************************************************************************)
C36_FirstChunkFailureInStream ==
    (Streaming /\ pc = "done" /\ FailedInvokes # {} /\ FailedChunk = 0) =>
        /\ yielded = <<>>
        /\ Len(invokes) = 1
        /\ outcome = Ended("exhausted")
        /\ DOMAIN files \subseteq {OutputSink}
        /\ \A sink \in DOMAIN files : files[sink] = <<>>
        /\ output_file \in {"none", "closed"}
        /\ OutputSink \in DOMAIN files => output_file = "closed"

C36_Witness ==
    /\ Streaming
    /\ pc = "done"
    /\ invokes # <<>>
    /\ invokes[1].outcome.kind = "throw"
    /\ args.output
    /\ output_file = "closed"
    /\ DOMAIN files = {OutputSink}
    /\ outcome = Ended("exhausted")

(***************************************************************************)
(* C37: whatever pdf_to_csv strips from the beginning of a page ends at a  *)
(* line break (or is the whole page, whose last line then ends with it):   *)
(* only whole lines are removed, never a part of a line.                   *)
(***************************************************************************)
Stripped(k) == SubSeq(args.pages[k], 1, Len(args.pages[k]) - Len(chunks[k]))

C37_OnlyWholeLinesRemoved ==
    pc = "basic_done" =>
        \A k \in DOMAIN chunks :
            \/ Stripped(k) = <<>>
            \/ Stripped(k)[Len(Stripped(k))] = NL
            \/ chunks[k] = <<>>

(***************************************************************************)
(* C38: in convert_streaming a partial sink is written, and the run ended  *)
(* as after a chunk failure, only when the conversion of a chunk failed:   *)
(* when the consumer throws an exception in at a yield, or closes the      *)
(* sequence early, no partial sink is written and the consumer's exception *)
(* comes back to it (the sequence does not just end).                      *)
(***************************************************************************)
C38_ConsumerExitIsNoChunkFailure ==
    (Streaming /\ pc = "done" /\ FailedInvokes = {}) =>
        /\ \A sink \in DOMAIN files : sink[1] # "partial"
        /\ \A sink \in write_errors : sink[1] # "partial"
        /\ injected = "exception" => outcome.kind = "raised"
        /\ injected = "close" => outcome.kind = "closed"

(***************************************************************************)
(* C39: extract_text never fails: a page whose extraction raises counts as *)
(* an empty page; it returns None when the document cannot be parsed and   *)
(* whenever the combined text is empty, also when the pages hold only      *)
(* whitespace; otherwise it returns the texts of the pages that have some, *)
(* in page order, joined by newlines and trimmed.                          *)
(***************************************************************************)
CombinedText(pages) ==
    LET with_text == SelectSeq(pages, LAMBDA r : r.kind = "text" /\ r.text # <<>>)
    IN  Strip(Glue([k \in DOMAIN with_text |-> with_text[k].text]))

C39_ExtractTextIsNoneOrTrimmedText ==
    pc = "extracted" =>
        IF ~args.reader_ok \/ CombinedText(args.pages) = <<>>
        THEN outcome = None
        ELSE outcome = Some(CombinedText(args.pages))

====
